---- MODULE Spec2Model ----
(***************************************************************************)
(* The data-orchestration layer of the deployment dashboard                *)
(* (src/src/utils/github.ts): the client registry, the TTL cache, the      *)
(* three listing operations and the error classification.                  *)
(*                                                                         *)
(* JavaScript runs one callback at a time, so every action below is one    *)
(* run-to-completion step: a call up to its first await, or the handling    *)
(* of one upstream answer up to the next await.                            *)
(***************************************************************************)
EXTENDS Integers, Sequences, FiniteSets, TLC

\* ------------------------------------------------------------------ bounds

\* Invocations of the listing operations in one behaviour.
MaxOps == 6
\* Pages an upstream listing has at most.
MaxPages == 2
\* Items an upstream page has at most.
MaxPageLen == 2
\* Deployments an upstream listing has at most, over all its pages.
MaxDeployments == 2
\* Advances of the clock in one behaviour.
MaxTicks == 2
\* refreshDashboard invocations between two page loads.
MaxRefreshes == 3

\* ------------------------------------------------------------- value sets

Sessions == {"u1", "u2"}
Tokens == {"tokA", "tokB"}
FullNames == {"acme/widgets"}

NoClient == "none"
NoToken == "none"

\* const CACHE_TTL = 5 * 60 * 1000 (milliseconds)
CACHE_TTL == 5 * 60 * 1000

\* Date.now() advances by 1 ms or by TTL - 1 ms, at most MaxTicks times: the
\* instants the clock can show.
TickSteps == {1, CACHE_TTL - 1}
ClockValues ==
  {a + b * (CACHE_TTL - 1) : <<a, b>> \in {p \in (0..MaxTicks) \X (0..MaxTicks) : p[1] + p[2] <= MaxTicks}}

\* ----------------------------------------------------------------- errors

\* A thrown value: an Error, with a status when it is an upstream RequestError.
NoError == [hasStatus |-> FALSE, status |-> 0, message |-> ""]
MkError(st, msg) == [hasStatus |-> TRUE, status |-> st, message |-> msg]

UninitializedError == [hasStatus |-> FALSE, status |-> 0, message |-> "Octokit not initialized for this user"]
AuthRequiredError == [hasStatus |-> FALSE, status |-> 0, message |-> "AUTH_REQUIRED"]
RateLimitError == [hasStatus |-> FALSE, status |-> 0, message |-> "RATE_LIMIT_EXCEEDED"]

\* What the upstream can answer a request with instead of data.
BadCredentials == MkError(401, "Bad credentials")
RateLimit403 == MkError(403, "API rate limit exceeded for user ID 1")
Forbidden403 == MkError(403, "Resource not accessible by integration")
NotFound404 == MkError(404, "Not Found")
ServerError500 == MkError(500, "Server Error")
NetworkError == [hasStatus |-> FALSE, status |-> 0, message |-> "fetch failed"]

UpstreamErrors == {BadCredentials, RateLimit403, Forbidden403, ServerError500, NetworkError}
ReleaseErrors == {NotFound404, BadCredentials}

\* error.message.includes('API rate limit exceeded'), over the messages above.
IncludesRateLimitText(message) == message \in {"API rate limit exceeded for user ID 1"}

\* ------------------------------------------------------ upstream payloads

EnvNames == {"prod", "10", "2"}
CreatedAts == {"1970-01-01T00:00:01Z", "1970-01-01T00:00:02Z"}
Refs == {"v1"}
States == {"success", "failure"}

\* new Date(created_at).getTime(), over the timestamps above (milliseconds).
GetTime(created_at) ==
  CASE created_at = "1970-01-01T00:00:01Z" -> 1000
    [] created_at = "1970-01-01T00:00:02Z" -> 2000
    [] OTHER -> 0

\* A property name that is a canonical array index: Object.entries lists these
\* first, in ascending numeric order. -1 for every other name.
ArrayIndexOf(name) ==
  CASE name = "10" -> 10
    [] name = "2" -> 2
    [] OTHER -> -1

\* x || d on strings: the empty string is falsy.
OrDefault(x, d) == IF x = "" THEN d ELSE x

\* ------------------------------------------------------- sequence helpers

RECURSIVE Flatten(_)
Flatten(ss) == IF ss = <<>> THEN <<>> ELSE Head(ss) \o Flatten(Tail(ss))

MapSeq(Op(_), s) == [i \in 1..Len(s) |-> Op(s[i])]

\* ------------------------------------------------------------ repositories

\* A repository as the upstream lists it.
UpstreamRepos ==
  { [full_name |-> "acme/widgets", owner |-> [login |-> "acme", type |-> "Organization"]],
    [full_name |-> "bob/site", owner |-> [login |-> "bob", type |-> "User"]] }

\* repo => ({ value, label, owner, isOrg })
ToRepoOption(repo) ==
  [value |-> repo.full_name,
   label |-> repo.full_name,
   owner |-> repo.owner.login,
   isOrg |-> (repo.owner.type = "Organization")]

\* ------------------------------------------------------------- deployments

\* A deployment as the upstream lists it (the fields the aggregation reads).
MkDeployment(id, env, created) ==
  [id |-> id, ref |-> "v1", environment |-> env, created_at |-> created]

\* The answer to listDeploymentStatuses: the status history, newest first.
StatusOk(states) == [ok |-> TRUE, data |-> states, err |-> NoError]
StatusErr(e) == [ok |-> FALSE, data |-> <<>>, err |-> e]
\* The answer to getReleaseByTag.
ReleaseOk(tag) == [ok |-> TRUE, tag_name |-> tag, err |-> NoError]
ReleaseErr(e) == [ok |-> FALSE, tag_name |-> "", err |-> e]

\* Mutant of StatusOf: the default is forgotten.
StatusOfNoDefault(statusResponse) ==
  IF Len(statusResponse.data) = 0 THEN "" ELSE statusResponse.data[1]

\* statusResponse.data[0]?.state || 'unknown'
StatusOf(statusResponse) ==
  OrDefault(IF Len(statusResponse.data) = 0 THEN "" ELSE statusResponse.data[1], "unknown")

\* getReleaseByTag(...).catch(() => null), then releaseResponse?.data.tag_name || ''
ReleaseTagOf(releaseReply) ==
  OrDefault(IF releaseReply.ok THEN releaseReply.tag_name ELSE "", "")

\* The object one deployment promise resolves to.
Assemble(deployment, statusResponse, releaseReply) ==
  [id |-> deployment.id,
   ref |-> deployment.ref,
   environment |-> deployment.environment,
   created_at |-> deployment.created_at,
   status |-> StatusOf(statusResponse),
   releaseTag |-> ReleaseTagOf(releaseReply)]

\* A plain object keyed by environment name is a sequence of own properties
\* in creation order.
HasKey(obj, k) == \E i \in 1..Len(obj) : obj[i].environment = k

\* Mutant of ReduceStep: the array is replaced instead of pushed to.
ReduceStepOverwrite(acc, deployment) ==
  LET withKey == IF HasKey(acc, deployment.environment)
                   THEN acc
                   ELSE Append(acc, [environment |-> deployment.environment, deployments |-> <<>>])
  IN [i \in 1..Len(withKey) |->
        IF withKey[i].environment = deployment.environment
          THEN [withKey[i] EXCEPT !.deployments = <<deployment>>]
          ELSE withKey[i]]

\* One step of deployments.reduce: create the array on first sight, push.
ReduceStep(acc, deployment) ==
  LET withKey == IF HasKey(acc, deployment.environment)
                   THEN acc
                   ELSE Append(acc, [environment |-> deployment.environment, deployments |-> <<>>])
  IN [i \in 1..Len(withKey) |->
        IF withKey[i].environment = deployment.environment
          THEN [withKey[i] EXCEPT !.deployments = Append(@, deployment)]
          ELSE withKey[i]]

RECURSIVE Reduce(_, _)
Reduce(acc, deployments) ==
  IF deployments = <<>> THEN acc
  ELSE Reduce(ReduceStep(acc, Head(deployments)), Tail(deployments))

\* Mutant of CompareCreated: the operands are swapped.
CompareCreatedAscending(a, b) == GetTime(a.created_at) - GetTime(b.created_at)

\* (a, b) => new Date(b.created_at).getTime() - new Date(a.created_at).getTime()
CompareCreated(a, b) == GetTime(b.created_at) - GetTime(a.created_at)

\* Mutant of InsertSorted: x goes before the elements it ties with.
RECURSIVE InsertSortedTiesFirst(_, _)
InsertSortedTiesFirst(sorted, x) ==
  IF sorted = <<>> THEN <<x>>
  ELSE IF CompareCreated(Head(sorted), x) < 0
         THEN <<Head(sorted)>> \o InsertSortedTiesFirst(Tail(sorted), x)
         ELSE <<x>> \o sorted

\* Array.prototype.sort is stable: x goes behind every element it does not
\* have to precede.
RECURSIVE InsertSorted(_, _)
InsertSorted(sorted, x) ==
  IF sorted = <<>> THEN <<x>>
  ELSE IF CompareCreated(Head(sorted), x) <= 0
         THEN <<Head(sorted)>> \o InsertSorted(Tail(sorted), x)
         ELSE <<x>> \o sorted

RECURSIVE SortDeployments(_)
SortDeployments(ds) ==
  IF ds = <<>> THEN <<>>
  ELSE InsertSorted(SortDeployments(SubSeq(ds, 1, Len(ds) - 1)), ds[Len(ds)])

\* Object.values(groupedDeployments).forEach(envDeployments => envDeployments.sort(...))
SortGroups(obj) ==
  [i \in 1..Len(obj) |-> [obj[i] EXCEPT !.deployments = SortDeployments(@)]]

\* Object.entries: array-index keys ascending, then the other keys in
\* creation order.
RECURSIVE IndexKeysAscending(_)
IndexKeysAscending(props) ==
  IF props = {} THEN <<>>
  ELSE LET least == CHOOSE p \in props :
                      \A q \in props : ArrayIndexOf(p.environment) <= ArrayIndexOf(q.environment)
       IN <<least>> \o IndexKeysAscending(props \ {least})

ObjectEntries(obj) ==
  LET isIndex(p) == ArrayIndexOf(p.environment) >= 0
      isName(p) == ArrayIndexOf(p.environment) < 0
  IN IndexKeysAscending({obj[i] : i \in {j \in 1..Len(obj) : isIndex(obj[j])}})
       \o SelectSeq(obj, isName)

\* Lines 136-151: group, sort each group, list the groups.
GroupAndSort(deployments) == ObjectEntries(SortGroups(Reduce(<<>>, deployments)))

\* ------------------------------------------------------------ environments

UpstreamEnvironments == {[id |-> 1, name |-> "prod"], [id |-> 2, name |-> "staging"]}
\* The answer to getAllEnvironments: data.environments may be missing.
EnvironmentsOk(hasField, envs) == [ok |-> TRUE, hasField |-> hasField, environments |-> envs, err |-> NoError]
EnvironmentsErr(e) == [ok |-> FALSE, hasField |-> FALSE, environments |-> <<>>, err |-> e]

\* data.environments || []
EnvironmentsOf(data) == IF data.hasField THEN data.environments ELSE <<>>

\* -------------------------------------------------------------------- state

VARIABLES
  octokitInstances,  \* userId -> the token of its client, or NoClient
  localStorage,      \* userId -> the item github_token-<userId>, or NoToken
  cache,             \* userId -> key -> {data, timestamp}; only what was set
  now,               \* Date.now()
  ops,               \* invocation -> its progress and its outcome
  setLog,            \* history: the setCachedData calls, in call order, each with the
                     \* client whose requests fetched the data
  home,              \* the Home component's state and the browser's storage
  todo,              \* calls the running callback has still to make, in order
  fetches,           \* the fetchInitialData invocations
  refreshes          \* the refreshDashboard invocations

\* The page (src/src/pages/index.tsx).
page == <<home, todo, fetches, refreshes>>

vars == <<octokitInstances, localStorage, cache, now, ops, setLog, home, todo, fetches, refreshes>>

OpIds == 1..MaxOps

\* ------------------------------------------------------------------- cache

RepositoriesKey == "repositories"
\* `deployments-${full_name}` and `environments-${full_name}`
DeploymentsKey(full_name) ==
  CASE full_name = "acme/widgets" -> "deployments-acme/widgets"
    [] full_name = "bob/site" -> "deployments-bob/site"
EnvironmentsKey(full_name) ==
  CASE full_name = "acme/widgets" -> "environments-acme/widgets"
    [] full_name = "bob/site" -> "environments-bob/site"

CacheKey(kind, full_name) ==
  CASE kind = "repositories" -> RepositoriesKey
    [] kind = "deployments" -> DeploymentsKey(full_name)
    [] kind = "environments" -> EnvironmentsKey(full_name)

Null == [hit |-> FALSE, data |-> <<>>]

\* Mutant of GetCachedDataAt: an entry of age TTL still counts.
GetCachedDataAtInclusive(c, t, userId, key) ==
  IF userId \notin DOMAIN c THEN Null
  ELSE IF key \in DOMAIN c[userId] /\ t - c[userId][key].timestamp <= CACHE_TTL
         THEN [hit |-> TRUE, data |-> c[userId][key].data]
         ELSE Null

\* getCachedData against a cache c at instant t: the data, or null.
GetCachedDataAt(c, t, userId, key) ==
  IF userId \notin DOMAIN c THEN Null
  ELSE IF key \in DOMAIN c[userId] /\ t - c[userId][key].timestamp < CACHE_TTL
         THEN [hit |-> TRUE, data |-> c[userId][key].data]
         ELSE Null

GetCachedData(userId, key) == GetCachedDataAt(cache, now, userId, key)

\* Mutant of SetCachedData: an entry that exists is kept.
SetCachedDataKeepFirst(c, t, userId, key, data) ==
  LET userCache == IF userId \in DOMAIN c THEN c[userId] ELSE <<>>
      entry == [data |-> data, timestamp |-> t]
  IN (userId :> (userCache @@ (key :> entry))) @@ c

\* Mutant of SetCachedData: one store for all sessions.
SetCachedDataShared(c, t, userId, key, data) ==
  LET entry == [data |-> data, timestamp |-> t]
  IN [u \in Sessions |-> (key :> entry) @@ (IF u \in DOMAIN c THEN c[u] ELSE <<>>)]

\* setCachedData: the cache after the call.
SetCachedData(c, t, userId, key, data) ==
  LET userCache == IF userId \in DOMAIN c THEN c[userId] ELSE <<>>
      entry == [data |-> data, timestamp |-> t]
  IN (userId :> ((key :> entry) @@ userCache)) @@ c

\* ---------------------------------------------------------------- registry

\* ensureOctokit: whether it throws.
EnsureOctokitThrows(userId) == octokitInstances[userId] = NoClient

\* Mutant of Thrown: every 403 counts as rate limiting.
ThrownAny403(error) ==
  IF error.hasStatus /\ error.status = 401 THEN AuthRequiredError
  ELSE IF error.hasStatus /\ error.status = 403 THEN RateLimitError
  ELSE error

\* What handleApiError throws for a caught error.
Thrown(error) ==
  IF error.hasStatus /\ error.status = 401 THEN AuthRequiredError
  ELSE IF error.hasStatus /\ error.status = 403 /\ IncludesRateLimitText(error.message)
         THEN RateLimitError
         ELSE error

\* Mutant of Evicts: every HTTP error drops the token and the client.
EvictsAnyStatus(error) == error.hasStatus

\* Whether handleApiError drops the token and the client.
Evicts(error) == error.hasStatus /\ error.status = 401

\* ------------------------------------------------------------- invocations

NoOutcome == [kind |-> "none", value |-> <<>>, err |-> NoError]
Returned(value) == [kind |-> "ok", value |-> value, err |-> NoError]
Threw(error) == [kind |-> "err", value |-> <<>>, err |-> error]

IdleOp ==
  [pc |-> "idle", kind |-> "", userId |-> "", full_name |-> "", client |-> NoClient,
   page |-> 0, more |-> FALSE, acc |-> <<>>, cur |-> <<>>, pages |-> <<>>,
   reqs |-> <<>>, fromCache |-> FALSE, cause |-> NoError, out |-> NoOutcome]

Request(what, n) == [what |-> what, n |-> n]

\* A deployment of the page being resolved, with its two sub-queries.
Slot(deployment) ==
  [dep |-> deployment,
   stDone |-> FALSE, st |-> StatusOk(<<>>),
   rlDone |-> FALSE, rl |-> ReleaseErr(NoError)]

NoUserId == ""
NoMessage == ""
NoCode == ""

\* The page's state: the useState values of the first render, what the
\* browser keeps (localStorage 'userId', `selectedRepos-${userId}`, the code in
\* the URL), whether router.query already holds the URL's query (the exported
\* page is rendered first with an empty query), whether the mount effect is
\* due, and the pending code exchange.
FirstRender ==
  [userId |-> NoUserId,
   isAuthenticated |-> FALSE,
   dashboardData |-> <<>>,
   repoOptions |-> <<>>,
   error |-> NoMessage,
   selectedRepos |-> <<>>,
   isLoading |-> FALSE,
   storedUserId |-> NoUserId,
   savedRepos |-> [u \in Sessions |-> [has |-> FALSE, repos |-> <<>>]],
   code |-> NoCode,
   query |-> "ready",
   effect |-> "due",
   exchange |-> "none"]

Init ==
  /\ octokitInstances = [u \in Sessions |-> NoClient]
  /\ localStorage = [u \in Sessions |-> NoToken]
  /\ cache = <<>>
  /\ now = 0
  /\ ops = [o \in OpIds |-> IdleOp]
  /\ setLog = <<>>
  /\ home = FirstRender
  /\ todo = <<>>
  /\ fetches = <<>>
  /\ refreshes = <<>>

\* The next invocation takes the first unused slot.
IsNextOp(o) == ops[o].pc = "idle" /\ \A p \in 1..(o - 1) : ops[p].pc # "idle"

\* ----------------------------------------------------------------- actions

\* Mutant of InitializeOctokit: an existing client is kept.
InitializeOctokitOnce(userId, accessToken) ==
  /\ localStorage' = [localStorage EXCEPT ![userId] = accessToken]
  /\ octokitInstances' =
       IF octokitInstances[userId] = NoClient
         THEN [octokitInstances EXCEPT ![userId] = accessToken]
         ELSE octokitInstances
  /\ UNCHANGED <<cache, now, ops, setLog>>

\* exchangeCodeForToken / the mount effect: store the token, create or
\* replace the client.
InitializeOctokit(userId, accessToken) ==
  /\ localStorage' = [localStorage EXCEPT ![userId] = accessToken]
  /\ octokitInstances' = [octokitInstances EXCEPT ![userId] = accessToken]
  /\ UNCHANGED <<cache, now, ops, setLog>>

\* Time passes.
Tick(d) ==
  /\ now' = now + d
  /\ UNCHANGED <<octokitInstances, localStorage, cache, ops, setLog>>

\* Mutant of HandleApiError: what the operation has collected so far is
\* cached before the error is thrown.
HandleApiErrorCachesPartial(o, op, error) ==
  /\ localStorage' =
       IF Evicts(error) THEN [localStorage EXCEPT ![op.userId] = NoToken] ELSE localStorage
  /\ octokitInstances' =
       IF Evicts(error) THEN [octokitInstances EXCEPT ![op.userId] = NoClient] ELSE octokitInstances
  /\ ops' = [ops EXCEPT ![o] = [op EXCEPT !.pc = "done", !.cause = error, !.out = Threw(Thrown(error))]]
  /\ cache' = SetCachedData(cache, now, op.userId, CacheKey(op.kind, op.full_name), op.acc)
  /\ UNCHANGED <<now, setLog>>

\* catch (error) { return handleApiError(error, userId) } for invocation o,
\* whose record (with this step's bookkeeping) is op.
HandleApiError(o, op, error) ==
  /\ localStorage' =
       IF Evicts(error) THEN [localStorage EXCEPT ![op.userId] = NoToken] ELSE localStorage
  /\ octokitInstances' =
       IF Evicts(error) THEN [octokitInstances EXCEPT ![op.userId] = NoClient] ELSE octokitInstances
  /\ ops' = [ops EXCEPT ![o] = [op EXCEPT !.pc = "done", !.cause = error, !.out = Threw(Thrown(error))]]
  /\ UNCHANGED <<cache, now, setLog>>

\* setCachedData(userId, cacheKey, value); return value
CacheAndReturn(o, op, value) ==
  LET key == CacheKey(op.kind, op.full_name)
  IN /\ cache' = SetCachedData(cache, now, op.userId, key, value)
     /\ setLog' = Append(setLog, [userId |-> op.userId, key |-> key, data |-> value, timestamp |-> now,
                                  client |-> op.client])
     /\ ops' = [ops EXCEPT ![o] = [op EXCEPT !.pc = "done", !.out = Returned(value)]]
     /\ UNCHANGED <<octokitInstances, localStorage, now>>

\* Mutant of NextPageOrFinish: the loop ends after the page at hand.
FinishAfterThisPage(o, op) ==
  CacheAndReturn(o, op, IF op.kind = "deployments" THEN GroupAndSort(op.acc) ELSE op.acc)

\* The for-await loop after a page is fully handled: ask for the next page
\* while the upstream named one, else finish.
NextPageOrFinish(o, op) ==
  IF op.more
    THEN /\ ops' = [ops EXCEPT ![o] = [op EXCEPT !.pc = "page", !.page = @ + 1,
                                                  !.reqs = Append(@, Request("page", op.page + 1))]]
         /\ UNCHANGED <<octokitInstances, localStorage, cache, now, setLog>>
    ELSE CacheAndReturn(o, op, IF op.kind = "deployments" THEN GroupAndSort(op.acc) ELSE op.acc)

\* Mutant of Invoke: a hit renews the entry.
InvokeTouchesHit(o, userId, kind, full_name) ==
  /\ IsNextOp(o)
  /\ LET started == [IdleOp EXCEPT !.kind = kind, !.userId = userId, !.full_name = full_name]
         cached == GetCachedData(userId, CacheKey(kind, full_name))
         hit == ~EnsureOctokitThrows(userId) /\ cached.hit
     IN /\ ops' = [ops EXCEPT ![o] =
             IF EnsureOctokitThrows(userId)
               THEN [started EXCEPT !.pc = "done", !.out = Threw(UninitializedError)]
             ELSE IF cached.hit
               THEN [started EXCEPT !.pc = "done", !.client = octokitInstances[userId],
                                    !.fromCache = TRUE, !.out = Returned(cached.data)]
             ELSE IF kind = "environments"
               THEN [started EXCEPT !.pc = "env", !.client = octokitInstances[userId],
                                    !.reqs = <<Request("environments", 0)>>]
               ELSE [started EXCEPT !.pc = "page", !.client = octokitInstances[userId],
                                    !.page = 1, !.reqs = <<Request("page", 1)>>]]
        /\ cache' = IF hit THEN SetCachedData(cache, now, userId, CacheKey(kind, full_name), cached.data)
                    ELSE cache
  /\ UNCHANGED <<octokitInstances, localStorage, now, setLog>>

\* Mutant of Invoke: the cache is read before the client is looked up.
InvokeCacheFirst(o, userId, kind, full_name) ==
  /\ IsNextOp(o)
  /\ LET started == [IdleOp EXCEPT !.kind = kind, !.userId = userId, !.full_name = full_name]
         cached == GetCachedData(userId, CacheKey(kind, full_name))
     IN ops' = [ops EXCEPT ![o] =
          IF cached.hit
            THEN [started EXCEPT !.pc = "done", !.client = octokitInstances[userId],
                                 !.fromCache = TRUE, !.out = Returned(cached.data)]
          ELSE IF EnsureOctokitThrows(userId)
            THEN [started EXCEPT !.pc = "done", !.out = Threw(UninitializedError)]
          ELSE IF kind = "environments"
            THEN [started EXCEPT !.pc = "env", !.client = octokitInstances[userId],
                                 !.reqs = <<Request("environments", 0)>>]
            ELSE [started EXCEPT !.pc = "page", !.client = octokitInstances[userId],
                                 !.page = 1, !.reqs = <<Request("page", 1)>>]]
  /\ UNCHANGED <<octokitInstances, localStorage, cache, now, setLog>>

\* A call of getRepositories / getDeployments / getEnvironments, up to its
\* first await.
Invoke(o, userId, kind, full_name) ==
  /\ IsNextOp(o)
  /\ LET started == [IdleOp EXCEPT !.kind = kind, !.userId = userId, !.full_name = full_name]
         cached == GetCachedData(userId, CacheKey(kind, full_name))
     IN ops' = [ops EXCEPT ![o] =
          IF EnsureOctokitThrows(userId)
            THEN [started EXCEPT !.pc = "done", !.out = Threw(UninitializedError)]
          ELSE IF cached.hit
            THEN [started EXCEPT !.pc = "done", !.client = octokitInstances[userId],
                                 !.fromCache = TRUE, !.out = Returned(cached.data)]
          ELSE IF kind = "environments"
            THEN [started EXCEPT !.pc = "env", !.client = octokitInstances[userId],
                                 !.reqs = <<Request("environments", 0)>>]
            ELSE [started EXCEPT !.pc = "page", !.client = octokitInstances[userId],
                                 !.page = 1, !.reqs = <<Request("page", 1)>>]]
  /\ UNCHANGED <<octokitInstances, localStorage, cache, now, setLog>>

\* Mutant of PageFails: the page is asked for again.
PageFailsRetry(o, error) ==
  /\ ops[o].pc = "page"
  /\ ops' = [ops EXCEPT ![o].reqs = Append(@, Request("page", ops[o].page))]
  /\ UNCHANGED <<octokitInstances, localStorage, cache, now, setLog>>

\* A page request of getRepositories or getDeployments is answered with an error.
PageFails(o, error) ==
  /\ ops[o].pc = "page"
  /\ HandleApiError(o, ops[o], error)

\* A page of the repository listing arrives.
RepositoriesPage(o, items, more) ==
  /\ ops[o].pc = "page"
  /\ ops[o].kind = "repositories"
  /\ NextPageOrFinish(o, [ops[o] EXCEPT !.more = more,
                                        !.pages = Append(@, items),
                                        !.acc = @ \o MapSeq(ToRepoOption, items)])

\* A page of the deployment listing arrives: both sub-queries of each of its
\* deployments are launched.
DeploymentsPage(o, envs, more) ==
  /\ ops[o].pc = "page"
  /\ ops[o].kind = "deployments"
  /\ LET first == Len(Flatten(ops[o].pages))
         deployments == [i \in 1..Len(envs) |-> MkDeployment(first + i, envs[i][1], envs[i][2])]
         launched == Flatten([i \in 1..Len(envs) |->
                       <<Request("status", first + i), Request("release", first + i)>>])
     IN IF deployments = <<>>
          THEN NextPageOrFinish(o, [ops[o] EXCEPT !.more = more, !.pages = Append(@, <<>>)])
          ELSE /\ ops' = [ops EXCEPT ![o] = [@ EXCEPT !.pc = "subs", !.more = more,
                                                      !.cur = MapSeq(Slot, deployments),
                                                      !.reqs = @ \o launched]]
               /\ UNCHANGED <<octokitInstances, localStorage, cache, now, setLog>>

\* Mutant of PageResolved: the release lookups are not waited for.
PageResolvedStatuses(cur) == \A i \in 1..Len(cur) : cur[i].stDone

PageResolved(cur) == \A i \in 1..Len(cur) : cur[i].stDone /\ cur[i].rlDone

AssembleSlot(slot) == Assemble(slot.dep, slot.st, slot.rl)

\* deployments.push(...await Promise.all(deploymentPromises)), then the loop.
AfterSubQuery(o, op) ==
  IF PageResolved(op.cur)
    THEN NextPageOrFinish(o, [op EXCEPT !.acc = @ \o MapSeq(AssembleSlot, op.cur),
                                        !.pages = Append(@, op.cur),
                                        !.cur = <<>>])
    ELSE /\ ops' = [ops EXCEPT ![o] = op]
         /\ UNCHANGED <<octokitInstances, localStorage, cache, now, setLog>>

\* listDeploymentStatuses of the i-th deployment of the page answers.
StatusReply(o, i, reply) ==
  /\ ops[o].pc = "subs"
  /\ i \in 1..Len(ops[o].cur)
  /\ ~ops[o].cur[i].stDone
  /\ LET op == [ops[o] EXCEPT !.cur[i].stDone = TRUE, !.cur[i].st = reply]
     IN IF reply.ok THEN AfterSubQuery(o, op) ELSE HandleApiError(o, op, reply.err)

\* Mutant of ReleaseReply: the lookup's error is not caught.
ReleaseReplyUncaught(o, i, reply) ==
  /\ ops[o].pc = "subs"
  /\ i \in 1..Len(ops[o].cur)
  /\ ~ops[o].cur[i].rlDone
  /\ LET op == [ops[o] EXCEPT !.cur[i].rlDone = TRUE, !.cur[i].rl = reply]
     IN IF reply.ok THEN AfterSubQuery(o, op) ELSE HandleApiError(o, op, reply.err)

\* getReleaseByTag of the i-th deployment of the page answers; an error is
\* caught and becomes null.
ReleaseReply(o, i, reply) ==
  /\ ops[o].pc = "subs"
  /\ i \in 1..Len(ops[o].cur)
  /\ ~ops[o].cur[i].rlDone
  /\ AfterSubQuery(o, [ops[o] EXCEPT !.cur[i].rlDone = TRUE, !.cur[i].rl = reply])

\* A sub-query answers after its invocation has already thrown: nothing
\* awaits the answer any more.
LateStatusReply(o, i, reply) ==
  /\ ops[o].pc = "done"
  /\ i \in 1..Len(ops[o].cur)
  /\ ~ops[o].cur[i].stDone
  /\ ops' = [ops EXCEPT ![o].cur[i].stDone = TRUE, ![o].cur[i].st = reply]
  /\ UNCHANGED <<octokitInstances, localStorage, cache, now, setLog>>

LateReleaseReply(o, i, reply) ==
  /\ ops[o].pc = "done"
  /\ i \in 1..Len(ops[o].cur)
  /\ ~ops[o].cur[i].rlDone
  /\ ops' = [ops EXCEPT ![o].cur[i].rlDone = TRUE, ![o].cur[i].rl = reply]
  /\ UNCHANGED <<octokitInstances, localStorage, cache, now, setLog>>

\* Mutant of EnvironmentsReply: a response without the environments field is
\* an error.
EnvironmentsReplyStrict(o, reply) ==
  /\ ops[o].pc = "env"
  /\ IF reply.ok /\ reply.hasField
       THEN CacheAndReturn(o, [ops[o] EXCEPT !.pages = <<reply.environments>>, !.more = reply.hasField],
                           EnvironmentsOf(reply))
       ELSE HandleApiError(o, ops[o], IF reply.ok
                                         THEN [hasStatus |-> FALSE, status |-> 0, message |-> "environments is undefined"]
                                         ELSE reply.err)

\* getAllEnvironments answers.
EnvironmentsReply(o, reply) ==
  /\ ops[o].pc = "env"
  /\ IF reply.ok
       THEN CacheAndReturn(o, [ops[o] EXCEPT !.pages = <<reply.environments>>, !.more = reply.hasField],
                           EnvironmentsOf(reply))
       ELSE HandleApiError(o, ops[o], reply.err)

\* ----------------------------------------------------- the page's callbacks
\* A callback of the page runs to completion too. The calls it makes one
\* after the other are queued in todo and made before anything else happens;
\* the continuation of an await runs as soon as the awaited call has settled.

HomeRepos == {"acme/widgets", "bob/site"}

FailedToRefresh == "Failed to refresh dashboard data"
FailedToFetch == "Failed to fetch repositories. Please check the console for more details."
FailedToAuthenticate == "Failed to authenticate with GitHub"

TodoFetch(userId) ==
  [fn |-> "fetchInitialData", userId |-> userId, repos |-> <<>>, refresh |-> 0, kind |-> "", full_name |-> ""]
TodoRefresh(userId, repos) ==
  [fn |-> "refreshDashboard", userId |-> userId, repos |-> repos, refresh |-> 0, kind |-> "", full_name |-> ""]
TodoCall(refresh, userId, kind, full_name) ==
  [fn |-> "call", userId |-> userId, repos |-> <<>>, refresh |-> refresh, kind |-> kind, full_name |-> full_name]

\* repos.map(async (repo) => Promise.all([getDeployments(...), getEnvironments(...)]))
BatchCalls(refresh, userId, repos) ==
  Flatten([i \in 1..Len(repos) |->
    <<TodoCall(refresh, userId, "deployments", repos[i]),
      TodoCall(refresh, userId, "environments", repos[i])>>])

\* The invocations a refresh made for one repository.
CallsFor(refresh, full_name) ==
  {i \in 1..Len(refresh.calls) : refresh.calls[i].full_name = full_name}
OpOf(refresh, full_name, kind) ==
  LET i == CHOOSE j \in CallsFor(refresh, full_name) : refresh.calls[j].kind = kind
  IN refresh.calls[i].op

\* The inner Promise.all of a repository has resolved: both calls returned.
BranchResolved(refresh, full_name) ==
  /\ \E i \in CallsFor(refresh, full_name) : refresh.calls[i].kind = "deployments"
  /\ \E i \in CallsFor(refresh, full_name) : refresh.calls[i].kind = "environments"
  /\ \A i \in CallsFor(refresh, full_name) :
       ops[refresh.calls[i].op].pc = "done" /\ ops[refresh.calls[i].op].out.kind = "ok"

\* A call of the batch has thrown: the outer Promise.all rejects.
BatchRejected(refresh) ==
  \E i \in 1..Len(refresh.calls) :
    ops[refresh.calls[i].op].pc = "done" /\ ops[refresh.calls[i].op].out.kind = "err"

\* Every repository's branch has stored its result: the outer Promise.all
\* resolves.
BatchResolved(refresh) ==
  DOMAIN refresh.newDashboardData = {refresh.repos[i] : i \in 1..Len(refresh.repos)}

FetchSettled(f) == fetches[f].pc = "repos" /\ ops[fetches[f].op].pc = "done"
BranchSettled(r, full_name) ==
  /\ full_name \in {refreshes[r].repos[i] : i \in 1..Len(refreshes[r].repos)}
  /\ full_name \notin DOMAIN refreshes[r].newDashboardData
  /\ BranchResolved(refreshes[r], full_name)
RefreshSettled(r) ==
  refreshes[r].pc = "running" /\ (BatchRejected(refreshes[r]) \/ BatchResolved(refreshes[r]))

\* No callback is running and no continuation is due: the next thing to
\* happen is an event from outside.
Quiet ==
  /\ todo = <<>>
  /\ home.effect # "due"
  /\ \A f \in 1..Len(fetches) : ~FetchSettled(f)
  /\ \A r \in 1..Len(refreshes) :
       ~RefreshSettled(r) /\ \A n \in HomeRepos : ~BranchSettled(r, n)

\* The browser loads the page: a first visit, a reload, or the return from
\* the sign-in redirect with a code. The scripts start afresh: only
\* localStorage is kept, and nothing of the calls made before is left.
PageLoad(code) ==
  /\ home' = [FirstRender EXCEPT !.storedUserId = home.storedUserId,
                                 !.savedRepos = home.savedRepos,
                                 !.code = code,
                                 !.query = IF code # NoCode THEN "prerender" ELSE "ready"]
  /\ octokitInstances' = [u \in Sessions |-> NoClient]
  /\ cache' = <<>>
  /\ setLog' = <<>>
  /\ ops' = [o \in OpIds |-> IdleOp]
  /\ todo' = <<>>
  /\ fetches' = <<>>
  /\ refreshes' = <<>>
  /\ UNCHANGED <<localStorage, now>>

\* After hydration the router hands the URL's query to the page: router.query
\* is a new object and the mount effect runs again.
RouterReady ==
  /\ home.query = "prerender"
  /\ home' = [home EXCEPT !.query = "ready", !.effect = "due"]
  /\ UNCHANGED <<octokitInstances, localStorage, cache, now, ops, setLog, todo, fetches, refreshes>>

\* The mount effect. It runs after the first render and again after a render
\* that changed userId (fetchInitialData is then a new function) or
\* router.query; the
\* fetchInitialData it calls is the one of the render it belongs to.
UseEffect ==
  /\ home.effect = "due"
  /\ todo = <<>>
  /\ LET storedUserId == home.storedUserId
         token == localStorage[storedUserId]
         again == IF home.userId # storedUserId THEN "due" ELSE "ran"
     IN IF storedUserId # NoUserId
          THEN IF token # NoToken
                 THEN /\ InitializeOctokit(storedUserId, token)
                      /\ home' = [home EXCEPT !.userId = storedUserId, !.isAuthenticated = TRUE,
                                              !.effect = again]
                      /\ todo' = <<TodoFetch(home.userId)>>
                      /\ UNCHANGED <<fetches, refreshes>>
                 ELSE /\ home' = [home EXCEPT !.userId = storedUserId, !.effect = again]
                      /\ UNCHANGED <<octokitInstances, localStorage, cache, now, ops, setLog,
                                     todo, fetches, refreshes>>
          ELSE /\ home' = [home EXCEPT !.effect = "ran",
                                       !.exchange = IF home.query = "ready" /\ home.code # NoCode
                                                      THEN "waiting" ELSE @]
               /\ UNCHANGED <<octokitInstances, localStorage, cache, now, ops, setLog,
                              todo, fetches, refreshes>>

\* exchangeCodeForToken after /api/github-oauth has answered.
ExchangeCodeForToken(hasToken, newUserId, accessToken) ==
  /\ home.exchange = "waiting"
  /\ IF hasToken
       THEN /\ InitializeOctokit(newUserId, accessToken)
            /\ home' = [home EXCEPT !.userId = newUserId, !.storedUserId = newUserId,
                                    !.isAuthenticated = TRUE, !.exchange = "none",
                                    !.effect = IF home.userId # newUserId THEN "due" ELSE @]
            /\ todo' = <<TodoFetch(home.userId)>>
            /\ UNCHANGED <<fetches, refreshes>>
       ELSE /\ home' = [home EXCEPT !.error = FailedToAuthenticate, !.exchange = "none"]
            /\ UNCHANGED <<octokitInstances, localStorage, cache, now, ops, setLog,
                           todo, fetches, refreshes>>

\* fetchInitialData up to its first await.
FetchInitialData ==
  /\ todo # <<>>
  /\ Head(todo).fn = "fetchInitialData"
  /\ IF Head(todo).userId = NoUserId
       THEN UNCHANGED <<octokitInstances, localStorage, cache, now, ops, setLog, fetches>>
       ELSE /\ \E o \in OpIds :
                 /\ Invoke(o, Head(todo).userId, "repositories", "")
                 /\ fetches' = Append(fetches, [pc |-> "repos", userId |-> Head(todo).userId, op |-> o])
  /\ todo' = Tail(todo)
  /\ UNCHANGED <<home, refreshes>>

\* refreshDashboard up to the calls of its batch.
RefreshDashboard ==
  /\ todo # <<>>
  /\ Head(todo).fn = "refreshDashboard"
  /\ IF Head(todo).userId = NoUserId
       THEN /\ todo' = Tail(todo)
            /\ UNCHANGED <<home, refreshes>>
       ELSE /\ home' = [home EXCEPT !.isLoading = TRUE]
            /\ refreshes' = Append(refreshes,
                 [pc |-> "running", userId |-> Head(todo).userId, repos |-> Head(todo).repos,
                  calls |-> <<>>, newDashboardData |-> <<>>])
            /\ todo' = BatchCalls(Len(refreshes) + 1, Head(todo).userId, Head(todo).repos) \o Tail(todo)
  /\ UNCHANGED <<octokitInstances, localStorage, cache, now, ops, setLog, fetches>>

\* One getDeployments or getEnvironments call of a batch, up to its first await.
CallOperation ==
  /\ todo # <<>>
  /\ Head(todo).fn = "call"
  /\ \E o \in OpIds :
       /\ Invoke(o, Head(todo).userId, Head(todo).kind, Head(todo).full_name)
       /\ refreshes' = [refreshes EXCEPT ![Head(todo).refresh].calls =
            Append(@, [full_name |-> Head(todo).full_name, kind |-> Head(todo).kind, op |-> o])]
  /\ todo' = Tail(todo)
  /\ UNCHANGED <<home, fetches>>

\* fetchInitialData after getRepositories has settled.
FetchContinues(f) ==
  /\ todo = <<>>
  /\ f \in 1..Len(fetches)
  /\ FetchSettled(f)
  /\ LET out == ops[fetches[f].op].out
         savedRepos == home.savedRepos[fetches[f].userId]
     IN IF out.kind = "ok"
          THEN /\ home' = [home EXCEPT !.repoOptions = out.value, !.error = NoMessage,
                                       !.selectedRepos = IF savedRepos.has THEN savedRepos.repos ELSE @]
               /\ fetches' = [fetches EXCEPT ![f].pc = "done"]
               /\ todo' = IF savedRepos.has THEN <<TodoRefresh(fetches[f].userId, savedRepos.repos)>> ELSE <<>>
          ELSE /\ home' = [home EXCEPT !.error = FailedToFetch]
               /\ fetches' = [fetches EXCEPT ![f].pc = "failed"]
               /\ todo' = <<>>
  /\ UNCHANGED <<octokitInstances, localStorage, cache, now, ops, setLog, refreshes>>

\* Mutant of BranchContinues: every repository's result is displayed as soon
\* as it is there.
BranchContinuesCommits(r, full_name) ==
  /\ todo = <<>>
  /\ r \in 1..Len(refreshes)
  /\ BranchSettled(r, full_name)
  /\ LET result == [groupedDeployments |-> ops[OpOf(refreshes[r], full_name, "deployments")].out.value,
                    environments |-> ops[OpOf(refreshes[r], full_name, "environments")].out.value]
     IN /\ refreshes' = [refreshes EXCEPT ![r].newDashboardData = (full_name :> result) @@ @]
        /\ home' = [home EXCEPT !.dashboardData = (full_name :> result) @@ @]
  /\ UNCHANGED <<octokitInstances, localStorage, cache, now, ops, setLog, todo, fetches>>

\* newDashboardData[repo.value] = { groupedDeployments, environments }
BranchContinues(r, full_name) ==
  /\ todo = <<>>
  /\ r \in 1..Len(refreshes)
  /\ BranchSettled(r, full_name)
  /\ refreshes' = [refreshes EXCEPT ![r].newDashboardData =
       (full_name :> [groupedDeployments |-> ops[OpOf(refreshes[r], full_name, "deployments")].out.value,
                      environments |-> ops[OpOf(refreshes[r], full_name, "environments")].out.value]) @@ @]
  /\ UNCHANGED <<octokitInstances, localStorage, cache, now, ops, setLog, home, todo, fetches>>

\* Mutant of RefreshContinues: what the batch has so far is shown on failure too.
RefreshContinuesPartial(r) ==
  /\ todo = <<>>
  /\ r \in 1..Len(refreshes)
  /\ RefreshSettled(r)
  /\ IF BatchRejected(refreshes[r])
       THEN /\ home' = [home EXCEPT !.dashboardData = refreshes[r].newDashboardData,
                                    !.error = FailedToRefresh, !.isLoading = FALSE]
            /\ refreshes' = [refreshes EXCEPT ![r].pc = "failed"]
       ELSE /\ home' = [home EXCEPT !.dashboardData = refreshes[r].newDashboardData, !.isLoading = FALSE]
            /\ refreshes' = [refreshes EXCEPT ![r].pc = "ok"]
  /\ UNCHANGED <<octokitInstances, localStorage, cache, now, ops, setLog, todo, fetches>>

\* Mutant of RefreshContinues: a generation check, only the batch started
\* last may display its result.
RefreshContinuesLatestOnly(r) ==
  /\ todo = <<>>
  /\ r \in 1..Len(refreshes)
  /\ RefreshSettled(r)
  /\ IF BatchRejected(refreshes[r])
       THEN /\ home' = [home EXCEPT !.error = FailedToRefresh, !.isLoading = FALSE]
            /\ refreshes' = [refreshes EXCEPT ![r].pc = "failed"]
       ELSE /\ home' = [home EXCEPT !.dashboardData = IF r = Len(refreshes) THEN refreshes[r].newDashboardData ELSE @,
                                    !.isLoading = FALSE]
            /\ refreshes' = [refreshes EXCEPT ![r].pc = "ok"]
  /\ UNCHANGED <<octokitInstances, localStorage, cache, now, ops, setLog, todo, fetches>>

\* Mutant of RefreshContinues: setIsLoading(false) on the success path only,
\* no finally block.
RefreshContinuesNoFinally(r) ==
  /\ todo = <<>>
  /\ r \in 1..Len(refreshes)
  /\ RefreshSettled(r)
  /\ IF BatchRejected(refreshes[r])
       THEN /\ home' = [home EXCEPT !.error = FailedToRefresh]
            /\ refreshes' = [refreshes EXCEPT ![r].pc = "failed"]
       ELSE /\ home' = [home EXCEPT !.dashboardData = refreshes[r].newDashboardData, !.isLoading = FALSE]
            /\ refreshes' = [refreshes EXCEPT ![r].pc = "ok"]
  /\ UNCHANGED <<octokitInstances, localStorage, cache, now, ops, setLog, todo, fetches>>

\* refreshDashboard after the outer Promise.all has settled:
\* setDashboardData, or catch and setError; finally setIsLoading(false).
RefreshContinues(r) ==
  /\ todo = <<>>
  /\ r \in 1..Len(refreshes)
  /\ RefreshSettled(r)
  /\ IF BatchRejected(refreshes[r])
       THEN /\ home' = [home EXCEPT !.error = FailedToRefresh, !.isLoading = FALSE]
            /\ refreshes' = [refreshes EXCEPT ![r].pc = "failed"]
       ELSE /\ home' = [home EXCEPT !.dashboardData = refreshes[r].newDashboardData, !.isLoading = FALSE]
            /\ refreshes' = [refreshes EXCEPT ![r].pc = "ok"]
  /\ UNCHANGED <<octokitInstances, localStorage, cache, now, ops, setLog, todo, fetches>>

\* handleRepoSelection up to its call of refreshDashboard. The Select is
\* rendered when authenticated and disabled while loading.
HandleRepoSelection(selected) ==
  /\ home.isAuthenticated
  /\ ~home.isLoading
  /\ IF home.userId = NoUserId
       THEN UNCHANGED <<home, todo>>
       ELSE /\ home' = [home EXCEPT !.selectedRepos = selected,
                                    !.savedRepos[home.userId] = [has |-> TRUE, repos |-> selected]]
            /\ todo' = <<TodoRefresh(home.userId, selected)>>
  /\ UNCHANGED <<octokitInstances, localStorage, cache, now, ops, setLog, fetches, refreshes>>

\* What the Select lets the user choose once the page is hydrated:
\* options={repoOptions} value={selectedRepos}; a change keeps or removes
\* chosen values and adds options.
Selectable(selected) ==
  /\ home.query = "ready"
  /\ selected # home.selectedRepos
  /\ \A i \in 1..Len(selected) :
       \/ \E k \in 1..Len(home.repoOptions) : home.repoOptions[k].value = selected[i]
       \/ \E k \in 1..Len(home.selectedRepos) : home.selectedRepos[k] = selected[i]

\* ------------------------------------------------------- answers, bounded

SeqsUpTo(S, n) == UNION {[1..k -> S] : k \in 0..n}

\* The lengths page number n can have: only an empty listing has an empty page.
PageLens(n) == IF n = 1 THEN 0..MaxPageLen ELSE 1..MaxPageLen
\* Whether the upstream names a further page after page number n of len items.
MoreChoices(n, len) == IF n < MaxPages /\ len > 0 THEN BOOLEAN ELSE {FALSE}

\* ---------------------------------------------- specification: aggregation
\* One session lists the deployments of one repository, twice; the upstream
\* answers with every listing of at most MaxDeployments deployments.

AggOps == 1..2
AggEnvs == {"prod", "10"}
AggStatusReplies ==
  {StatusOk(<<>>), StatusOk(<<"failure", "success">>), StatusErr(ServerError500)}
AggReleaseReplies == {ReleaseOk("v1"), ReleaseErr(NotFound404), ReleaseErr(ServerError500)}

NextAgg ==
  /\ UNCHANGED page
  /\ \/ InitializeOctokit("u1", "tokA")
     \/ \E o \in AggOps :
          /\ \A p \in AggOps : ops[p].pc = "idle" \/ ops[p].out.kind = "ok"
          /\ Invoke(o, "u1", "deployments", "acme/widgets")
     \/ \E o \in AggOps : PageFails(o, ServerError500)
     \/ \E o \in AggOps :
          /\ ops[o].pc = "page"
          /\ \E n \in PageLens(ops[o].page) :
               /\ Len(Flatten(ops[o].pages)) + n <= MaxDeployments
               /\ \E envs \in [1..n -> AggEnvs \X CreatedAts], more \in MoreChoices(ops[o].page, n) :
                    /\ more => Len(Flatten(ops[o].pages)) + n < MaxDeployments
                    /\ DeploymentsPage(o, envs, more)
     \/ \E o \in AggOps, i \in 1..MaxPageLen :
          /\ ops[o].pc = "subs"
          /\ \E r \in AggStatusReplies : StatusReply(o, i, r)
     \/ \E o \in AggOps, i \in 1..MaxPageLen :
          /\ ops[o].pc = "subs"
          /\ \E r \in AggReleaseReplies : ReleaseReply(o, i, r)
     \/ \E o \in AggOps, i \in 1..MaxPageLen : LateStatusReply(o, i, StatusOk(<<>>))
     \/ \E o \in AggOps, i \in 1..MaxPageLen : LateReleaseReply(o, i, ReleaseErr(NotFound404))

SpecAgg == Init /\ [][NextAgg]_vars

\* --------------------------------------------- specification: repositories
\* One session lists its repositories, up to twice and possibly at the same
\* time; the upstream answers with every listing of at most MaxPages pages of
\* at most MaxPageLen repositories, or fails a page.

ReposOps == 1..2

NextRepos ==
  /\ UNCHANGED page
  /\ \/ InitializeOctokit("u1", "tokA")
     \/ \E o \in ReposOps : Invoke(o, "u1", "repositories", "")
     \/ \E o \in ReposOps : PageFails(o, ServerError500)
     \/ \E o \in ReposOps :
          /\ ops[o].pc = "page"
          /\ \E n \in PageLens(ops[o].page) :
               \E items \in [1..n -> UpstreamRepos], more \in MoreChoices(ops[o].page, n) :
                 RepositoriesPage(o, items, more)

SpecRepos == Init /\ [][NextRepos]_vars

\* --------------------------------------------------- specification: errors
\* One session calls the three operations one after the other, signing in
\* again when it likes; the upstream answers each request with data or with
\* any of the upstream errors.

ErrOps == 1..3
ErrStatusReplies == {StatusOk(<<"success">>)} \cup {StatusErr(e) : e \in UpstreamErrors}
ErrReleaseReplies == {ReleaseOk("v1"), ReleaseErr(NotFound404)}
ErrEnvironmentsReplies ==
  {EnvironmentsOk(TRUE, <<[id |-> 1, name |-> "prod"]>>)} \cup {EnvironmentsErr(e) : e \in UpstreamErrors}

NextErr ==
  /\ UNCHANGED page
  /\ \/ InitializeOctokit("u1", "tokA")
     \/ \E o \in ErrOps, k \in {"repositories", "deployments", "environments"} :
          /\ \A p \in ErrOps : ops[p].pc \in {"idle", "done"}
          /\ Invoke(o, "u1", k, IF k = "repositories" THEN "" ELSE "acme/widgets")
     \/ \E o \in ErrOps, e \in UpstreamErrors : PageFails(o, e)
     \/ \E o \in ErrOps :
          RepositoriesPage(o, <<[full_name |-> "acme/widgets", owner |-> [login |-> "acme", type |-> "Organization"]]>>, FALSE)
     \/ \E o \in ErrOps : DeploymentsPage(o, <<<<"prod", "1970-01-01T00:00:01Z">>>>, FALSE)
     \/ \E o \in ErrOps, r \in ErrStatusReplies : StatusReply(o, 1, r)
     \/ \E o \in ErrOps, r \in ErrReleaseReplies : ReleaseReply(o, 1, r)
     \/ \E o \in ErrOps : LateReleaseReply(o, 1, ReleaseErr(NotFound404))
     \/ \E o \in ErrOps, r \in ErrEnvironmentsReplies : EnvironmentsReply(o, r)

SpecErr == Init /\ [][NextErr]_vars

\* ------------------------------------------- specification: authentication
\* One session signs in, again when it likes, and calls the three operations,
\* one call at a time; the upstream answers each request with data, with a
\* 401 or with a server error.

AuthOps == 1..3
AuthErrors == {BadCredentials, ServerError500}
AuthStatusReplies == {StatusOk(<<"success">>)} \cup {StatusErr(e) : e \in AuthErrors}
AuthReleaseReplies == {ReleaseOk("v1"), ReleaseErr(NotFound404), ReleaseErr(BadCredentials)}
AuthEnvironmentsReplies ==
  {EnvironmentsOk(TRUE, <<[id |-> 1, name |-> "prod"]>>)} \cup {EnvironmentsErr(e) : e \in AuthErrors}

NextAuth ==
  /\ UNCHANGED page
  /\ \/ InitializeOctokit("u1", "tokA")
     \/ \E o \in AuthOps, k \in {"repositories", "deployments", "environments"} :
          /\ \A p \in AuthOps : ops[p].pc \in {"idle", "done"}
          /\ Invoke(o, "u1", k, IF k = "repositories" THEN "" ELSE "acme/widgets")
     \/ \E o \in AuthOps, e \in AuthErrors : PageFails(o, e)
     \/ \E o \in AuthOps :
          RepositoriesPage(o, <<[full_name |-> "acme/widgets", owner |-> [login |-> "acme", type |-> "Organization"]]>>, FALSE)
     \/ \E o \in AuthOps : DeploymentsPage(o, <<<<"prod", "1970-01-01T00:00:01Z">>>>, FALSE)
     \/ \E o \in AuthOps, r \in AuthStatusReplies : StatusReply(o, 1, r)
     \/ \E o \in AuthOps, r \in AuthReleaseReplies : ReleaseReply(o, 1, r)
     \/ \E o \in AuthOps, r \in AuthReleaseReplies : LateReleaseReply(o, 1, r)
     \/ \E o \in AuthOps, r \in AuthEnvironmentsReplies : EnvironmentsReply(o, r)

SpecAuth == Init /\ [][NextAuth]_vars

\* ---------------------------------------------------- specification: cache
\* Two sessions sign in and list the environments of one repository, at any
\* time and at the same time, while the clock advances; the upstream answers
\* with an environment list, with no environments field or with an error.

CacheOps == 1..3
CacheEnvironmentsReplies ==
  {EnvironmentsOk(FALSE, <<>>), EnvironmentsOk(TRUE, <<[id |-> 1, name |-> "prod"]>>),
   EnvironmentsErr(ServerError500)}

NextCache ==
  /\ UNCHANGED page
  /\ \/ \E u \in Sessions : InitializeOctokit(u, "tokA")
     \/ \E d \in TickSteps : now + d \in ClockValues /\ Tick(d)
     \/ \E o \in CacheOps, u \in Sessions : Invoke(o, u, "environments", "acme/widgets")
     \/ \E o \in CacheOps, r \in CacheEnvironmentsReplies : EnvironmentsReply(o, r)

SpecCache == Init /\ [][NextCache]_vars

\* ------------------------------------------------ specification: registry
\* Two sessions sign in with either token, again and again, and list the
\* environments of one repository; the upstream answers with a list or with
\* a 401.

RegistryOps == 1..3
RegistryEnvironmentsReplies ==
  {EnvironmentsOk(TRUE, <<[id |-> 1, name |-> "prod"]>>), EnvironmentsErr(BadCredentials)}

NextRegistry ==
  /\ UNCHANGED page
  /\ \/ \E u \in Sessions, t \in Tokens : InitializeOctokit(u, t)
     \/ \E o \in RegistryOps, u \in Sessions : Invoke(o, u, "environments", "acme/widgets")
     \/ \E o \in RegistryOps, r \in RegistryEnvironmentsReplies : EnvironmentsReply(o, r)

SpecRegistry == Init /\ [][NextRegistry]_vars

\* ------------------------------------------------ specification: cache hits
\* One session calls each of the three operations up to twice, one call at a
\* time, while the clock advances; the upstream answers each request with data.

HitOps == 1..6

NextHit ==
  /\ UNCHANGED page
  /\ \/ InitializeOctokit("u1", "tokA")
     \/ \E d \in TickSteps : now + d \in ClockValues /\ Tick(d)
     \/ \E o \in HitOps, k \in {"repositories", "deployments", "environments"} :
          /\ \A p \in HitOps : ops[p].pc \in {"idle", "done"}
          /\ Cardinality({p \in HitOps : ops[p].kind = k}) < 2
          /\ Invoke(o, "u1", k, IF k = "repositories" THEN "" ELSE "acme/widgets")
     \/ \E o \in HitOps :
          RepositoriesPage(o, <<[full_name |-> "bob/site", owner |-> [login |-> "bob", type |-> "User"]]>>, FALSE)
     \/ \E o \in HitOps : DeploymentsPage(o, <<>>, FALSE)
     \/ \E o \in HitOps : EnvironmentsReply(o, EnvironmentsOk(TRUE, <<[id |-> 2, name |-> "staging"]>>))

SpecHit == Init /\ [][NextHit]_vars

\* ------------------------------------------------- specification: failures
\* One session calls the three operations one after the other while the
\* clock advances, signing in again when it likes; listings may have a
\* second page, and the upstream answers every page and sub-query with data,
\* with a 401, with a rate-limit 403 or with a server error.

FailOps == 1..2

NextFail ==
  /\ UNCHANGED page
  /\ \/ InitializeOctokit("u1", "tokA")
     \/ \E d \in TickSteps : now + d \in ClockValues /\ Tick(d)
     \/ \E o \in FailOps, k \in {"repositories", "deployments", "environments"} :
          /\ \A p \in FailOps : ops[p].pc \in {"idle", "done"}
          /\ Invoke(o, "u1", k, IF k = "repositories" THEN "" ELSE "acme/widgets")
     \/ \E o \in FailOps, e \in {BadCredentials, RateLimit403, ServerError500} : PageFails(o, e)
     \/ \E o \in FailOps :
          /\ ops[o].pc = "page"
          /\ \E more \in MoreChoices(ops[o].page, 1) :
               RepositoriesPage(o, <<[full_name |-> "acme/widgets", owner |-> [login |-> "acme", type |-> "Organization"]]>>, more)
     \/ \E o \in FailOps :
          /\ ops[o].pc = "page"
          /\ \E more \in MoreChoices(ops[o].page, 1) :
               DeploymentsPage(o, <<<<"prod", "1970-01-01T00:00:01Z">>>>, more)
     \/ \E o \in FailOps, r \in {StatusOk(<<"success">>)}
                                  \cup {StatusErr(e) : e \in {BadCredentials, RateLimit403, ServerError500}} :
          StatusReply(o, 1, r)
     \/ \E o \in FailOps : ReleaseReply(o, 1, ReleaseOk("v1"))
     \/ \E o \in FailOps : LateReleaseReply(o, 1, ReleaseOk("v1"))
     \/ \E o \in FailOps, r \in {EnvironmentsOk(TRUE, <<[id |-> 1, name |-> "prod"]>>)}
                                  \cup {EnvironmentsErr(e) : e \in {BadCredentials, RateLimit403, ServerError500}} :
          EnvironmentsReply(o, r)

SpecFail == Init /\ [][NextFail]_vars

\* --------------------------------------------------- specification: frame
\* Two sessions, each signing in when it has no client and calling
\* getRepositories and getEnvironments one call at a time, the two sessions
\* at the same time; the upstream answers with data, with a 401, with either
\* 403, with a server error or not at all.

FrameOps == 1..3

NextFrame ==
  /\ UNCHANGED page
  /\ \/ \E u \in Sessions : octokitInstances[u] = NoClient /\ InitializeOctokit(u, "tokA")
     \/ \E o \in FrameOps, u \in Sessions, k \in {"repositories", "environments"} :
          /\ \A p \in FrameOps : ops[p].userId = u => ops[p].pc = "done"
          /\ Invoke(o, u, k, IF k = "repositories" THEN "" ELSE "acme/widgets")
     \/ \E o \in FrameOps, e \in UpstreamErrors : PageFails(o, e)
     \/ \E o \in FrameOps :
          RepositoriesPage(o, <<[full_name |-> "acme/widgets", owner |-> [login |-> "acme", type |-> "Organization"]]>>, FALSE)
     \/ \E o \in FrameOps, r \in {EnvironmentsOk(TRUE, <<[id |-> 1, name |-> "prod"]>>)}
                                   \cup {EnvironmentsErr(e) : e \in UpstreamErrors} :
          EnvironmentsReply(o, r)

SpecFrame == Init /\ [][NextFrame]_vars

\* ----------------------------------------------------- specification: page
\* One browser: the page is loaded, with or without a sign-in code, the
\* router hands the query over after hydration, the code exchange answers,
\* the user changes the selection, and the upstream answers each request of
\* the calls in flight with data, with a server error or with a 401. An
\* event from outside happens only when the page is quiet.

Selections == {<<>>, <<"acme/widgets">>, <<"bob/site">>, <<"acme/widgets", "bob/site">>}
HomeCodes == {NoCode, "c1"}
HomeErrors == {ServerError500, BadCredentials}
HomeEnvironmentsReplies ==
  {EnvironmentsOk(TRUE, <<[id |-> 1, name |-> "prod"]>>)} \cup {EnvironmentsErr(e) : e \in HomeErrors}

HomeOps == 1..6
FreeOps == Cardinality({o \in HomeOps : ops[o].pc = "idle"})
\* The invocations a selection costs: its own batch, and the batch of every
\* fetchInitialData that will restore it.
SelectionNeeds(selected) ==
  2 * Len(selected) * (1 + Cardinality({f \in 1..Len(fetches) : fetches[f].pc = "repos"}))
\* The invocations a page load costs: for every run of the effect that finds
\* a token, getRepositories and the restored batch; getRepositories after a
\* code exchange.
LoadNeeds(code) ==
  IF home.storedUserId = NoUserId THEN 1
  ELSE IF localStorage[home.storedUserId] = NoToken THEN 0
  ELSE (IF code # NoCode THEN 2 ELSE 1)
         * (1 + 2 * Len(home.savedRepos[home.storedUserId].repos))

\* What happens without the user: the page's callbacks and continuations
\* run, the router and the code exchange answer, and the upstream answers a
\* request in flight.
PageRuns ==
  \/ UseEffect
  \/ FetchInitialData
  \/ RefreshDashboard
  \/ CallOperation
  \/ \E f \in 1..Len(fetches) : FetchContinues(f)
  \/ \E r \in 1..Len(refreshes), n \in HomeRepos : BranchContinues(r, n)
  \/ \E r \in 1..Len(refreshes) : RefreshContinues(r)
  \/ Quiet /\ RouterReady
  \/ \E hasToken \in BOOLEAN : Quiet /\ ExchangeCodeForToken(hasToken, "u1", "tokA")
  \/ \E o \in HomeOps :
       /\ ops[o].pc = "page"
       /\ Quiet
       /\ \E e \in HomeErrors : PageFails(o, e)
       /\ UNCHANGED page
  \/ \E o \in HomeOps :
       /\ ops[o].pc = "page"
       /\ Quiet
       /\ RepositoriesPage(o, <<[full_name |-> "acme/widgets", owner |-> [login |-> "acme", type |-> "Organization"]],
                                 [full_name |-> "bob/site", owner |-> [login |-> "bob", type |-> "User"]]>>, FALSE)
       /\ UNCHANGED page
  \/ \E o \in HomeOps :
       /\ ops[o].pc = "page"
       /\ Quiet
       /\ DeploymentsPage(o, <<>>, FALSE)
       /\ UNCHANGED page
  \/ \E o \in HomeOps :
       /\ ops[o].pc = "env"
       /\ Quiet
       /\ \E r \in HomeEnvironmentsReplies : EnvironmentsReply(o, r)
       /\ UNCHANGED page

\* The page runs, or the user loads the page or changes the selection.
NextHome ==
  \/ PageRuns
  \/ \E code \in HomeCodes : Quiet /\ LoadNeeds(code) <= Cardinality(HomeOps) /\ PageLoad(code)
  \/ \E selected \in Selections :
       /\ Quiet
       /\ Len(refreshes) < MaxRefreshes
       /\ SelectionNeeds(selected) <= FreeOps
       /\ Selectable(selected)
       /\ HandleRepoSelection(selected)

SpecHome == Init /\ [][NextHome]_vars

\* The user returns from the sign-in redirect with a code.
SignIn == Quiet /\ LoadNeeds("c1") <= Cardinality(HomeOps) /\ PageLoad("c1")

\* The page under fair scheduling: what can happen keeps happening, a loaded
\* page is hydrated, and a user who can sign in does so again and again.
SpecHomeFair == SpecHome /\ WF_vars(NextHome) /\ SF_vars(Quiet /\ RouterReady) /\ SF_vars(SignIn)

\* The page with callbacks that run and requests that are answered: whatever
\* can happen without the user keeps happening; the user acts or does not.
SpecHomeLive == SpecHome /\ WF_vars(PageRuns)

\* ------------------------------------------------- reading the invocations

\* Invocation o of getDeployments has returned.
ReturnedDeployments(o) ==
  ops[o].pc = "done" /\ ops[o].kind = "deployments" /\ ops[o].out.kind = "ok"
\* ... and computed what it returned from upstream answers.
ComputedDeployments(o) == ReturnedDeployments(o) /\ ~ops[o].fromCache
\* The deployments the upstream listed to o, with the answers to their
\* sub-queries, in upstream order.
Listed(o) == Flatten(ops[o].pages)
\* The deployments of a result, group after group.
DeploymentsIn(result) == Flatten([g \in 1..Len(result) |-> result[g].deployments])
\* Where the deployment with this id stands in a sequence of deployments.
PlacesOf(id, ds) == {i \in 1..Len(ds) : ds[i].id = id}

\* The upstream answered a request of invocation o with a 401.
Got401(o) ==
  \/ ops[o].cause = BadCredentials
  \/ \E i \in 1..Len(ops[o].cur) :
       \/ ops[o].cur[i].stDone /\ ops[o].cur[i].st.err = BadCredentials
       \/ ops[o].cur[i].rlDone /\ ops[o].cur[i].rl.err = BadCredentials
  \/ /\ ops[o].kind = "deployments"
     /\ \E i \in 1..Len(Listed(o)) : Listed(o)[i].rl.err = BadCredentials

\* --------------------------------------------------------------- claims

\* C1 (under SpecAuth): an invocation to one of whose requests the upstream
\* answered with a 401 ends by throwing AUTH_REQUIRED, and when it ends the
\* registry holds no client for its session any more.
C1_Any401EndsInAuthRequired ==
  [][\A o \in OpIds :
       (ops[o].pc # "done" /\ ops'[o].pc = "done" /\ Got401(o)')
         => /\ ops'[o].out = Threw(AuthRequiredError)
            /\ octokitInstances'[ops'[o].userId] = NoClient]_vars

\* C2 (under SpecAuth): a call for a session without a client ends at once
\* by throwing the Uninitialized error, has issued no upstream request and
\* leaves the cache as it was, whatever the cache holds.
C2_NoClientIsUninitialized ==
  [][\A o \in OpIds :
       (ops[o].pc = "idle" /\ ops'[o].pc # "idle" /\ octokitInstances[ops'[o].userId] = NoClient)
         => /\ ops'[o].pc = "done"
            /\ ops'[o].out = Threw(UninitializedError)
            /\ ops'[o].reqs = <<>>
            /\ cache' = cache
            /\ setLog' = setLog]_vars

\* C2 witness: a call threw Uninitialized although the cache holds an
\* unexpired entry under its key.
C2_Witness ==
  \E o \in OpIds :
    /\ ops[o].pc = "done"
    /\ ops[o].out = Threw(UninitializedError)
    /\ GetCachedData(ops[o].userId, CacheKey(ops[o].kind, ops[o].full_name)).hit


\* The setCachedData calls made for a key of a session, oldest first.
SetsOf(userId, key) ==
  LET mine(e) == e.userId = userId /\ e.key = key
  IN SelectSeq(setLog, mine)

CacheKeys ==
  {RepositoriesKey} \cup {DeploymentsKey(f) : f \in FullNames} \cup {EnvironmentsKey(f) : f \in FullNames}

\* C3 (under SpecCache): at every instant, for every session and key,
\* getCachedData returns the value of the most recent setCachedData for them
\* when that call was made less than 5 minutes ago, and null otherwise.
C3_CacheReadWithinTtl ==
  \A u \in Sessions, k \in CacheKeys :
    LET sets == SetsOf(u, k)
    IN GetCachedData(u, k) =
         IF sets # <<>> /\ now - sets[Len(sets)].timestamp < 300000
           THEN [hit |-> TRUE, data |-> sets[Len(sets)].data]
           ELSE Null

\* C3 witness: one entry is exactly 5 minutes old and is read as null, another
\* is one millisecond younger and is read.
C3_Witness ==
  \E u, v \in Sessions, k \in CacheKeys :
    /\ SetsOf(u, k) # <<>> /\ SetsOf(v, k) # <<>>
    /\ now - SetsOf(u, k)[Len(SetsOf(u, k))].timestamp = 300000
    /\ ~GetCachedData(u, k).hit
    /\ now - SetsOf(v, k)[Len(SetsOf(v, k))].timestamp = 299999
    /\ GetCachedData(v, k).hit

\* C4 (under SpecCache): what a session reads from the cache was set under
\* that session, and a step that sets nothing under a session and leaves the
\* clock alone changes none of that session's reads.
C4_SessionsIsolated ==
  [][\A u \in Sessions, k \in CacheKeys :
       /\ GetCachedData(u, k)'.hit
            => \E n \in 1..Len(SetsOf(u, k)') : SetsOf(u, k)'[n].data = GetCachedData(u, k)'.data
       /\ (now' = now /\ \A j \in CacheKeys : SetsOf(u, j)' = SetsOf(u, j))
            => GetCachedData(u, k)' = GetCachedData(u, k)]_vars

\* C4 witness: both sessions hold an unexpired entry under the same key,
\* with different data.
C4_Witness ==
  \E k \in CacheKeys :
    /\ GetCachedData("u1", k).hit
    /\ GetCachedData("u2", k).hit
    /\ GetCachedData("u1", k).data # GetCachedData("u2", k).data

\* C5: a release lookup that fails or finds nothing never makes getDeployments
\* fail (a computing invocation fails only on a page request or on a status
\* list), and in what it returns the deployment has releaseTag "" while every
\* listed deployment keeps its own id, ref, environment and creation time and
\* the tag of its own release when one was found.
C5_ReleaseFailureTolerated ==
  \A o \in OpIds :
    /\ (ops[o].pc = "done" /\ ops[o].kind = "deployments" /\ ops[o].out.kind = "err"
          /\ ops[o].out.err # UninitializedError)
         => \/ ops[o].cur = <<>>
            \/ \E i \in 1..Len(ops[o].cur) :
                 ops[o].cur[i].stDone /\ ~ops[o].cur[i].st.ok /\ ops[o].cur[i].st.err = ops[o].cause
    /\ ComputedDeployments(o)
         => \A k \in 1..Len(Listed(o)) :
              LET slot == Listed(o)[k]
                  ds == DeploymentsIn(ops[o].out.value)
              IN \E i \in 1..Len(ds) :
                   /\ ds[i].id = slot.dep.id
                   /\ ds[i].ref = slot.dep.ref
                   /\ ds[i].environment = slot.dep.environment
                   /\ ds[i].created_at = slot.dep.created_at
                   /\ ds[i].releaseTag = IF slot.rl.ok THEN slot.rl.tag_name ELSE ""

\* C5 witness: an invocation returned two deployments, the release lookup of
\* one failed with a server error and that of the other found the release.
C5_Witness ==
  \E o \in OpIds :
    /\ ComputedDeployments(o)
    /\ \E j, k \in 1..Len(Listed(o)) :
         /\ Listed(o)[j].rl = ReleaseErr(ServerError500)
         /\ Listed(o)[k].rl.ok
    /\ \E i, n \in 1..Len(DeploymentsIn(ops[o].out.value)) :
         /\ DeploymentsIn(ops[o].out.value)[i].releaseTag = ""
         /\ DeploymentsIn(ops[o].out.value)[n].releaseTag = "v1"

\* C6: every deployment of every result has a status; in a computed result it
\* is the state of the first entry of the deployment's status list, and
\* "unknown" when the list is empty.
C6_StatusNeverAbsent ==
  \A o \in OpIds :
    /\ ReturnedDeployments(o)
         => \A i \in 1..Len(DeploymentsIn(ops[o].out.value)) :
              DeploymentsIn(ops[o].out.value)[i].status \in States \cup {"unknown"}
    /\ ComputedDeployments(o)
         => \A k \in 1..Len(Listed(o)) :
              \A i \in PlacesOf(Listed(o)[k].dep.id, DeploymentsIn(ops[o].out.value)) :
                DeploymentsIn(ops[o].out.value)[i].status =
                  IF Len(Listed(o)[k].st.data) = 0 THEN "unknown" ELSE Listed(o)[k].st.data[1]

\* C6 witness: a computed result holds a deployment without status entries
\* and one whose newest entry differs from an older one.
C6_Witness ==
  \E o \in OpIds :
    /\ ComputedDeployments(o)
    /\ \E j, k \in 1..Len(Listed(o)) :
         /\ Listed(o)[j].st.data = <<>>
         /\ Listed(o)[k].st.data = <<"failure", "success">>
    /\ \E i \in 1..Len(DeploymentsIn(ops[o].out.value)) :
         DeploymentsIn(ops[o].out.value)[i].status = "unknown"

\* C7: in every result, computed or served from the cache, the deployments of
\* each group are in non-increasing order of creation time.
C7_GroupsNewestFirst ==
  \A o \in OpIds :
    ReturnedDeployments(o)
      => \A g \in 1..Len(ops[o].out.value) :
           LET ds == ops[o].out.value[g].deployments
           IN \A i \in 1..(Len(ds) - 1) :
                GetTime(ds[i].created_at) >= GetTime(ds[i + 1].created_at)

\* C7 witness: a result served from the cache whose group lists deployment 2
\* before the older deployment 1 the upstream listed first.
C7_Witness ==
  \E o \in OpIds :
    /\ ReturnedDeployments(o)
    /\ ops[o].fromCache
    /\ \E g \in 1..Len(ops[o].out.value) :
         LET ds == ops[o].out.value[g].deployments
         IN /\ Len(ds) = 2
            /\ ds[1].id = 2 /\ ds[2].id = 1
            /\ GetTime(ds[1].created_at) > GetTime(ds[2].created_at)

\* C8: a computed result partitions the listed deployments by environment:
\* each listed deployment stands exactly once in the result, in the group named
\* after its own environment; group names are distinct and no group is empty.
C8_PartitionByEnvironment ==
  \A o \in OpIds :
    ComputedDeployments(o)
      => LET result == ops[o].out.value
             ds == DeploymentsIn(result)
         IN /\ Len(ds) = Len(Listed(o))
            /\ \A k \in 1..Len(Listed(o)) : Cardinality(PlacesOf(Listed(o)[k].dep.id, ds)) = 1
            /\ \A g \in 1..Len(result) :
                 /\ result[g].deployments # <<>>
                 /\ \A i \in 1..Len(result[g].deployments) :
                      result[g].deployments[i].environment = result[g].environment
                 /\ \A h \in 1..Len(result) : result[h].environment = result[g].environment => h = g

\* C8 witness: two "prod" deployments, the second one newer, came back as the
\* single group "prod" holding deployment 2 and then deployment 1.
C8_Witness ==
  \E o \in OpIds :
    /\ ComputedDeployments(o)
    /\ Len(Listed(o)) = 2
    /\ \A k \in 1..2 : Listed(o)[k].dep.environment = "prod" /\ ~Listed(o)[k].rl.ok
    /\ GetTime(Listed(o)[2].dep.created_at) > GetTime(Listed(o)[1].dep.created_at)
    /\ Len(ops[o].out.value) = 1
    /\ ops[o].out.value[1].environment = "prod"
    /\ ops[o].out.value[1].deployments[1].id = 2
    /\ ops[o].out.value[1].deployments[2].id = 1

\* Invocation o of getRepositories returned what it computed from upstream pages.
ComputedRepositories(o) ==
  ops[o].pc = "done" /\ ops[o].kind = "repositories" /\ ops[o].out.kind = "ok" /\ ~ops[o].fromCache
\* C9 (under SpecRepos): a getRepositories invocation that misses the cache
\* returns only after a page without successor, having asked for each page
\* once; what it returns is one RepoOption per upstream repository, in page
\* order and then in order within the page, and that same sequence was stored
\* under "repositories". An invocation whose page request failed returns
\* nothing and stores nothing: the key was set once per completed listing.
C9_AllPagesThenCache ==
  /\ \A o \in OpIds :
       ComputedRepositories(o)
         => LET listed == Flatten(ops[o].pages)
                repos == ops[o].out.value
            IN /\ ~ops[o].more
               /\ ops[o].reqs = [n \in 1..Len(ops[o].pages) |-> Request("page", n)]
               /\ Len(repos) = Len(listed)
               /\ \A i \in 1..Len(listed) :
                    /\ repos[i].value = listed[i].full_name
                    /\ repos[i].label = listed[i].full_name
                    /\ repos[i].owner = listed[i].owner.login
                    /\ repos[i].isOrg = (listed[i].owner.type = "Organization")
               /\ \E n \in 1..Len(SetsOf(ops[o].userId, RepositoriesKey)) :
                    SetsOf(ops[o].userId, RepositoriesKey)[n].data = repos
  /\ \A u \in Sessions :
       LET sets == SetsOf(u, RepositoriesKey)
       IN /\ Len(sets) = Cardinality({o \in OpIds : ComputedRepositories(o) /\ ops[o].userId = u})
          /\ (u \in DOMAIN cache /\ RepositoriesKey \in DOMAIN cache[u])
               => sets # <<>> /\ cache[u][RepositoriesKey].data = sets[Len(sets)].data
          /\ sets # <<>> => (u \in DOMAIN cache /\ RepositoriesKey \in DOMAIN cache[u])
  /\ \A o \in OpIds :
       (ops[o].pc = "done" /\ ops[o].kind = "repositories" /\ ops[o].cause # NoError)
         => ops[o].out.kind = "err"

\* C9 witness: one invocation failed on its second page after a first page of
\* repositories, and another returned two pages, in upstream order.
C9_Witness ==
  \E o, p \in OpIds :
    /\ ops[p].pc = "done" /\ ops[p].out.kind = "err" /\ ops[p].page = 2 /\ ops[p].pages # <<>>
    /\ ComputedRepositories(o)
    /\ Len(ops[o].pages) = 2
    /\ Len(ops[o].out.value) = 3
    /\ ops[o].out.value[1].value = "acme/widgets"
    /\ ops[o].out.value[2].value = "bob/site"
    /\ ops[o].out.value[3].value = "acme/widgets"
    /\ Len(ops[o].pages[1]) = 1

\* Invocation o ended by throwing what handleApiError made of an upstream error.
FailedUpstream(o) ==
  ops[o].pc = "done" /\ ops[o].out.kind = "err" /\ ops[o].out.err # UninitializedError

\* C10 (under SpecErr): an invocation of any of the three operations that
\* fails on an upstream error throws AUTH_REQUIRED when the error has status
\* 401, RATE_LIMIT_EXCEEDED when it has status 403 and its message holds the
\* rate-limit text, and the upstream error itself in every other case.
C10_ErrorClassification ==
  \A o \in OpIds :
    FailedUpstream(o)
      => LET e == ops[o].cause
         IN /\ e \in UpstreamErrors
            /\ (e.hasStatus /\ e.status = 401) => ops[o].out.err = AuthRequiredError
            /\ (e.hasStatus /\ e.status = 403 /\ e.message = "API rate limit exceeded for user ID 1")
                 => ops[o].out.err = RateLimitError
            /\ (e.hasStatus /\ e.status = 403 /\ e.message # "API rate limit exceeded for user ID 1")
                 => ops[o].out.err = e
            /\ (e.hasStatus /\ e.status \notin {401, 403}) => ops[o].out.err = e
            /\ ~e.hasStatus => ops[o].out.err = e

\* C10 witness: the three operations failed, one on a 401, one on a
\* rate-limit 403 and one on another 403.
C10_Witness ==
  \E a, b, c \in OpIds :
    /\ FailedUpstream(a) /\ ops[a].kind = "repositories"
    /\ ops[a].cause = Forbidden403 /\ ops[a].out.err = Forbidden403
    /\ FailedUpstream(b) /\ ops[b].kind = "deployments"
    /\ ops[b].cause = RateLimit403 /\ ops[b].out.err = RateLimitError
    /\ FailedUpstream(c) /\ ops[c].kind = "environments"
    /\ ops[c].cause = BadCredentials /\ ops[c].out.err = AuthRequiredError

\* Invocation o of getEnvironments missed the cache and returned.
ComputedEnvironments(o) ==
  ops[o].pc = "done" /\ ops[o].kind = "environments" /\ ops[o].out.kind = "ok" /\ ~ops[o].fromCache

\* C11 (under SpecCache): a getEnvironments invocation that misses the cache
\* and gets an upstream response returns the response's environments, or the
\* empty sequence when the response has no environments field, and what it
\* returns was stored under "environments-" + fullName; such a call fails
\* only on an upstream error.
C11_EnvironmentsOrEmpty ==
  /\ \A o \in OpIds :
       ComputedEnvironments(o)
         => /\ ops[o].reqs = <<Request("environments", 0)>>
            /\ ops[o].more => ops[o].out.value = ops[o].pages[1]
            /\ ~ops[o].more => ops[o].out.value = <<>>
            /\ \E n \in 1..Len(SetsOf(ops[o].userId, "environments-acme/widgets")) :
                 SetsOf(ops[o].userId, "environments-acme/widgets")[n].data = ops[o].out.value
  /\ \A o \in OpIds :
       (ops[o].pc = "done" /\ ops[o].kind = "environments" /\ ops[o].out.kind = "err")
         => ops[o].out.err \in {UninitializedError} \cup {Thrown(e) : e \in UpstreamErrors}
  /\ \A u \in Sessions :
       Len(SetsOf(u, "environments-acme/widgets"))
         = Cardinality({o \in OpIds : ComputedEnvironments(o) /\ ops[o].userId = u})

\* C11 witness: one invocation got a response without the environments field
\* and returned the empty sequence, another returned the listed environment;
\* both values were stored.
C11_Witness ==
  \E o, p \in OpIds :
    /\ ComputedEnvironments(o) /\ ~ops[o].more /\ ops[o].out.value = <<>>
    /\ ComputedEnvironments(p) /\ ops[p].more /\ ops[p].out.value = <<[id |-> 1, name |-> "prod"]>>
    /\ \E n \in 1..Len(setLog) : setLog[n].data = <<>> /\ setLog[n].key = "environments-acme/widgets"
    /\ \E n \in 1..Len(setLog) : setLog[n].data = ops[p].out.value /\ setLog[n].key = "environments-acme/widgets"

\* The repositories of a selection.
ReposOf(repos) == {repos[i] : i \in 1..Len(repos)}

\* Refresh r has finished with all of its calls returned, and what it put
\* together is what those calls returned, repository by repository.
CompleteBatch(r) ==
  /\ refreshes[r].pc = "ok"
  /\ Len(refreshes[r].calls) = 2 * Len(refreshes[r].repos)
  /\ \A i \in 1..Len(refreshes[r].calls) :
       ops[refreshes[r].calls[i].op].pc = "done" /\ ops[refreshes[r].calls[i].op].out.kind = "ok"
  /\ DOMAIN refreshes[r].newDashboardData = ReposOf(refreshes[r].repos)
  /\ \A n \in ReposOf(refreshes[r].repos) :
       /\ refreshes[r].newDashboardData[n].groupedDeployments
            = ops[OpOf(refreshes[r], n, "deployments")].out.value
       /\ refreshes[r].newDashboardData[n].environments
            = ops[OpOf(refreshes[r], n, "environments")].out.value

\* C12 (under SpecHome): what the dashboard displays is at every instant
\* either the empty dashboard of the first render or the whole result of a
\* refresh batch all of whose getDeployments and getEnvironments calls have
\* returned, never the part a running or failed batch has put together; and
\* a batch that has finished well is such a batch.
C12_DisplayedIsCompleteBatch ==
  /\ \/ home.dashboardData = <<>>
     \/ \E r \in 1..Len(refreshes) :
          CompleteBatch(r) /\ home.dashboardData = refreshes[r].newDashboardData
  /\ \A r \in 1..Len(refreshes) : refreshes[r].pc = "ok" => CompleteBatch(r)

\* C12 witness: a batch over two repositories is running and holds the result
\* of one of them, and the dashboard does not display it.
C12_Witness ==
  \E r \in 1..Len(refreshes) :
    /\ refreshes[r].pc = "running"
    /\ Len(refreshes[r].repos) = 2
    /\ Cardinality(DOMAIN refreshes[r].newDashboardData) = 1
    /\ home.isLoading
    /\ home.dashboardData # refreshes[r].newDashboardData

\* C13 (under SpecHome): the step on which a refresh batch with a failed
\* call ends leaves the displayed dashboard as it is, shows the refresh
\* error and ends the loading; a batch with a failed call never ends well;
\* and the displayed dashboard changes only on a page load or on the step on
\* which a batch ends well, so nothing of a failing batch is ever displayed.
C13_FailedBatchCommitsNothing ==
  [][/\ \A r \in 1..Len(refreshes) :
          (refreshes[r].pc = "running" /\ Len(refreshes') >= r /\ refreshes'[r].pc # "running")
            => IF BatchRejected(refreshes[r])
                 THEN /\ refreshes'[r].pc = "failed"
                      /\ home'.dashboardData = home.dashboardData
                      /\ home'.error = "Failed to refresh dashboard data"
                      /\ ~home'.isLoading
                 ELSE refreshes'[r].pc = "ok"
     /\ home'.dashboardData # home.dashboardData
          => \/ refreshes' = <<>> /\ home'.dashboardData = <<>>
             \/ \E r \in 1..Len(refreshes) :
                  /\ refreshes[r].pc = "running" /\ ~BatchRejected(refreshes[r])
                  /\ refreshes'[r].pc = "ok"]_vars

\* C13 witness: a batch over two repositories has failed on a call for one
\* of them while both calls for the other had returned and its result was
\* put together; the dashboard displays the refresh error and not that result.
C13_Witness ==
  \E r \in 1..Len(refreshes) :
    /\ refreshes[r].pc = "failed"
    /\ Len(refreshes[r].repos) = 2
    /\ \E n \in ReposOf(refreshes[r].repos) :
         /\ BranchResolved(refreshes[r], n)
         /\ n \in DOMAIN refreshes[r].newDashboardData
         /\ n \notin DOMAIN home.dashboardData
    /\ home.error = "Failed to refresh dashboard data"
    /\ ~home.isLoading

\* C14 (under SpecAgg): when a getDeployments invocation has ended, by
\* returning or by throwing, every sub-query it launched has answered; and
\* when a refresh batch has ended, every call it made has ended.
C14_JoinAll ==
  /\ \A o \in OpIds :
       (ops[o].pc = "done" /\ ops[o].kind = "deployments") => PageResolved(ops[o].cur)
  /\ \A r \in 1..Len(refreshes) :
       refreshes[r].pc # "running"
         => \A i \in 1..Len(refreshes[r].calls) : ops[refreshes[r].calls[i].op].pc = "done"

\* A call made by the page has thrown AUTH_REQUIRED.
AuthRequiredSeen ==
  \E o \in OpIds : ops[o].pc = "done" /\ ops[o].out = Threw(AuthRequiredError)

\* C15 (under SpecHomeFair): after a call of the page has failed with
\* AUTH_REQUIRED the page eventually stops being authenticated, and
\* eventually a client exists again.
C15_ReauthenticationPossible ==
  /\ AuthRequiredSeen ~> ~home.isAuthenticated
  /\ AuthRequiredSeen ~> (\E u \in Sessions : octokitInstances[u] # NoClient)

\* The upstream answered a status list of invocation o with an error.
StatusFailed(o) ==
  \E i \in 1..Len(ops[o].cur) : ops[o].cur[i].stDone /\ ~ops[o].cur[i].st.ok

\* C16 (under SpecErr): an invocation one of whose page requests, status
\* lists or environment lists was answered with an error has ended by
\* throwing, only a failed release lookup lets it go on; and no invocation
\* makes the same request twice.
C16_FailuresEndNoRetry ==
  \A o \in OpIds :
    /\ (ops[o].cause # NoError \/ (ops[o].kind = "deployments" /\ StatusFailed(o)))
         => ops[o].pc = "done" /\ ops[o].out.kind = "err"
    /\ (ops[o].pc = "done" /\ ops[o].out.kind = "ok" /\ ~ops[o].fromCache)
         => ops[o].cause = NoError
    /\ \A i, j \in 1..Len(ops[o].reqs) : ops[o].reqs[i] = ops[o].reqs[j] => i = j

\* C16 witness: one invocation threw on a failed status list after three
\* requests, another returned although its release lookup had failed, and a
\* third threw on a failed page request.
C16_Witness ==
  \E a, b, c \in OpIds :
    /\ ops[a].pc = "done" /\ ops[a].out.kind = "err" /\ StatusFailed(a)
    /\ Len(ops[a].reqs) = 3
    /\ ComputedDeployments(b) /\ Len(Listed(b)) = 1 /\ ~Listed(b)[1].rl.ok
    /\ ops[c].pc = "done" /\ ops[c].out.kind = "err" /\ ops[c].kind = "repositories"
    /\ ops[c].reqs = <<Request("page", 1)>>

\* C17 (under SpecRegistry): a step that gives a session a client gives it
\* the client of the token just stored for it, whether or not it had one, and
\* leaves the clients of all other sessions alone; a call made for a session
\* with a client uses the client of the token last given to initializeOctokit.
C17_InitializeCreatesOrReplaces ==
  [][/\ \A u \in Sessions :
          localStorage'[u] \notin {localStorage[u], NoToken} \/ octokitInstances'[u] \notin {octokitInstances[u], NoClient}
            => /\ octokitInstances'[u] = localStorage'[u]
               /\ \A v \in Sessions \ {u} : octokitInstances'[v] = octokitInstances[v]
     /\ \A o \in OpIds :
          (ops[o].pc = "idle" /\ ops'[o].pc # "idle" /\ octokitInstances[ops'[o].userId] # NoClient)
            => ops'[o].client = localStorage[ops'[o].userId]]_vars

\* C17 witness: a session made a call with the client of one token and,
\* signed in again, a call with the client of the other, while the other
\* session kept its client.
C17_Witness ==
  \E o, p \in OpIds :
    /\ ops[o].pc # "idle" /\ ops[o].userId = "u1" /\ ops[o].client = "tokA"
    /\ ops[p].pc # "idle" /\ ops[p].userId = "u1" /\ ops[p].client = "tokB"
    /\ o < p
    /\ octokitInstances = [u \in Sessions |-> IF u = "u1" THEN "tokB" ELSE "tokA"]

\* C18 (under SpecHit): a call that finds an unexpired entry under its key
\* returns that entry's data at once, without a request, and leaves the cache
\* as it is, timestamp included; and no step removes an entry or changes one
\* other than by a setCachedData for its session and key, so an expired entry
\* stays until it is set again.
C18_HitReturnsEntryUntouched ==
  [][/\ \A o \in OpIds :
          (/\ ops[o].pc = "idle" /\ ops'[o].pc # "idle"
           /\ octokitInstances[ops'[o].userId] # NoClient
           /\ GetCachedData(ops'[o].userId, CacheKey(ops'[o].kind, ops'[o].full_name)).hit)
            => /\ ops'[o].pc = "done"
               /\ ops'[o].out
                    = Returned(cache[ops'[o].userId][CacheKey(ops'[o].kind, ops'[o].full_name)].data)
               /\ ops'[o].reqs = <<>>
               /\ cache' = cache
               /\ setLog' = setLog
     /\ \A u \in DOMAIN cache : \A k \in DOMAIN cache[u] :
          /\ u \in DOMAIN cache' /\ k \in DOMAIN cache'[u]
          /\ cache'[u][k] # cache[u][k]
               => /\ Len(setLog') = Len(setLog) + 1
                  /\ setLog'[Len(setLog')].userId = u
                  /\ setLog'[Len(setLog')].key = k]_vars

\* C18 witness: each of the three operations was served from the cache
\* without a request; the entry read by one of them still carries the
\* timestamp of its set and, now expired, is still stored.
C18_Witness ==
  /\ \A k \in {"repositories", "deployments", "environments"} :
       \E o \in OpIds : ops[o].kind = k /\ ops[o].fromCache /\ ops[o].reqs = <<>>
  /\ now = 300000
  /\ cache["u1"]["repositories"].timestamp = 0
  /\ ~GetCachedData("u1", "repositories").hit

\* C19 (under SpecCache): every getEnvironments invocation that missed the
\* cache made its own request and its own setCachedData, also when another
\* one for the same session and key was under way; the entry of a key is,
\* data and timestamp, what the last of these calls wrote; and what an
\* invocation was served from the cache is the whole data of one such call.
C19_LastWriterWins ==
  /\ \A u \in Sessions :
       LET sets == SetsOf(u, EnvironmentsKey("acme/widgets"))
       IN /\ Len(sets) = Cardinality({o \in OpIds : ComputedEnvironments(o) /\ ops[o].userId = u})
          /\ sets # <<>>
               => cache[u][EnvironmentsKey("acme/widgets")]
                    = [data |-> sets[Len(sets)].data, timestamp |-> sets[Len(sets)].timestamp]
  /\ \A o \in OpIds :
       ComputedEnvironments(o) => ops[o].reqs = <<Request("environments", 0)>>
  /\ \A o \in OpIds :
       (ops[o].pc = "done" /\ ops[o].fromCache)
         => \E n \in 1..Len(setLog) :
              /\ setLog[n].userId = ops[o].userId
              /\ setLog[n].key = EnvironmentsKey(ops[o].full_name)
              /\ setLog[n].data = ops[o].out.value

\* C19 witness: two invocations for the same session were under way at the
\* same time (no time has passed and neither was served from the cache);
\* they returned different lists, and the cache holds the one set last, which
\* is the one of the invocation that started first.
C19_Witness ==
  \E o, p \in OpIds :
    /\ o < p
    /\ ops[o].userId = ops[p].userId
    /\ ComputedEnvironments(o) /\ ComputedEnvironments(p)
    /\ now = 0
    /\ ops[o].out.value # ops[p].out.value
    /\ LET sets == SetsOf(ops[o].userId, EnvironmentsKey("acme/widgets"))
       IN /\ Len(sets) = 2
          /\ sets[1].data = ops[p].out.value
          /\ sets[2].data = ops[o].out.value
          /\ cache[ops[o].userId][EnvironmentsKey("acme/widgets")].data = ops[o].out.value

\* The place of a request among the requests of invocation o, 0 if not made.
PlaceOfRequest(o, request) ==
  IF \E i \in 1..Len(ops[o].reqs) : ops[o].reqs[i] = request
    THEN CHOOSE i \in 1..Len(ops[o].reqs) : ops[o].reqs[i] = request
    ELSE 0

\* C20 (under SpecAgg): while a getDeployments invocation waits for the
\* sub-queries of a page, the status list and the release lookup of every
\* deployment of that page have been requested, answered or not, and every
\* sub-query of the pages before has been answered; while it waits for a
\* page, or has returned, no sub-query is unanswered; and each page was
\* requested after all sub-queries of the deployments of the pages before.
C20_PageByPage ==
  \A o \in OpIds :
    ops[o].kind = "deployments" =>
      /\ \A i \in 1..Len(ops[o].cur) :
           /\ PlaceOfRequest(o, Request("status", ops[o].cur[i].dep.id)) > 0
           /\ PlaceOfRequest(o, Request("release", ops[o].cur[i].dep.id)) > 0
      /\ \A i \in 1..Len(Listed(o)) : Listed(o)[i].stDone /\ Listed(o)[i].rlDone
      /\ (ops[o].pc = "page" \/ (ops[o].pc = "done" /\ ops[o].out.kind = "ok")) => ops[o].cur = <<>>
      /\ \A n \in 2..ops[o].page : \A m \in 1..(n - 1) : \A i \in 1..Len(ops[o].pages[m]) :
           /\ PlaceOfRequest(o, Request("status", ops[o].pages[m][i].dep.id))
                < PlaceOfRequest(o, Request("page", n))
           /\ PlaceOfRequest(o, Request("release", ops[o].pages[m][i].dep.id))
                < PlaceOfRequest(o, Request("page", n))

\* C20 witness: an invocation waits for both sub-queries of the deployment of
\* its second page, none answered yet, after the sub-queries of the first page.
C20_Witness ==
  \E o \in OpIds :
    /\ ops[o].pc = "subs"
    /\ ops[o].page = 2
    /\ Len(ops[o].cur) = 1
    /\ ~ops[o].cur[1].stDone /\ ~ops[o].cur[1].rlDone
    /\ ops[o].reqs = <<Request("page", 1), Request("status", 1), Request("release", 1),
                       Request("page", 2), Request("status", 2), Request("release", 2)>>

\* C21 (under SpecAgg): whatever the order in which the sub-queries
\* answered, a computed result was made from the deployments in upstream
\* order, page after page and in the order within each page, each with the
\* answers to its own sub-queries; and inside every group a deployment
\* stands before another exactly when it is newer, or as old and listed
\* earlier by the upstream.
C21_OrderIndependentOfCompletion ==
  \A o \in OpIds :
    ComputedDeployments(o)
      => /\ ops[o].acc = [k \in 1..Len(Listed(o)) |->
                            Assemble(Listed(o)[k].dep, Listed(o)[k].st, Listed(o)[k].rl)]
         /\ \A k \in 1..Len(Listed(o)) : Listed(o)[k].dep.id = k
         /\ \A g \in 1..Len(ops[o].out.value) :
              LET ds == ops[o].out.value[g].deployments
              IN \A i, j \in 1..Len(ds) :
                   i < j <=> \/ GetTime(ds[i].created_at) > GetTime(ds[j].created_at)
                             \/ /\ GetTime(ds[i].created_at) = GetTime(ds[j].created_at)
                                /\ ds[i].id < ds[j].id

\* C21 witness: two deployments of one page, equally old and of the same
\* environment, whose sub-queries were answered differently, came back as
\* deployment 1 and then deployment 2.
C21_Witness ==
  \E o \in OpIds :
    /\ ComputedDeployments(o)
    /\ Len(ops[o].pages) = 1
    /\ Len(Listed(o)) = 2
    /\ Listed(o)[1].dep.created_at = Listed(o)[2].dep.created_at
    /\ Listed(o)[1].st # Listed(o)[2].st
    /\ Len(ops[o].out.value) = 1
    /\ ops[o].out.value[1].deployments[1].id = 1
    /\ ops[o].out.value[1].deployments[2].id = 2
    /\ ops[o].out.value[1].deployments[1].status # ops[o].out.value[1].deployments[2].status

\* The environment names of a sequence of deployments, each once, in the
\* order of first appearance.
RECURSIVE FirstAppearances(_)
FirstAppearances(ds) ==
  IF ds = <<>> THEN <<>>
  ELSE LET before == FirstAppearances(SubSeq(ds, 1, Len(ds) - 1))
           name == ds[Len(ds)].environment
       IN IF \E i \in 1..Len(before) : before[i] = name THEN before ELSE Append(before, name)

\* C22 (under SpecAgg): the groups of a computed result name the
\* environments in the order in which the upstream listing first mentions them.
C22_GroupsInFirstAppearanceOrder ==
  \A o \in OpIds :
    ComputedDeployments(o)
      => [g \in 1..Len(ops[o].out.value) |-> ops[o].out.value[g].environment]
           = FirstAppearances([k \in 1..Len(Listed(o)) |-> Listed(o)[k].dep])

\* C23 (under SpecHome): a batch cannot be cancelled and nothing compares
\* generations. A running batch stays running until its own Promise.all
\* settles, and on the step on which a batch completes successfully the
\* displayed dashboard state becomes that batch's result, whatever other
\* batches were started after it or have completed before it; the displayed
\* state changes on no other step, so after overlapping batches it is the
\* result of the one that completed last.
C23_LastCompletedBatchIsDisplayed ==
  [][/\ \A r \in 1..Len(refreshes) :
          /\ (r <= Len(refreshes') /\ refreshes[r].pc = "running" /\ refreshes'[r].pc = "ok")
               => /\ BatchResolved(refreshes[r])
                  /\ home'.dashboardData = refreshes[r].newDashboardData
          /\ (r <= Len(refreshes') /\ refreshes[r].pc = "running" /\ refreshes'[r].pc # "running")
               => RefreshSettled(r)
     /\ home'.dashboardData # home.dashboardData
          => \/ \E r \in 1..Len(refreshes) :
                  r <= Len(refreshes') /\ refreshes[r].pc = "running" /\ refreshes'[r].pc = "ok"
             \/ refreshes' = <<>>]_vars

\* Two batches overlapped, the one started earlier for the older selection
\* completed after the newer one, and its result is what is displayed.
C23_Witness ==
  \E r1, r2 \in 1..Len(refreshes) :
    /\ r1 < r2
    /\ refreshes[r1].pc = "ok"
    /\ refreshes[r2].pc = "ok"
    /\ refreshes[r1].repos # refreshes[r2].repos
    /\ home.selectedRepos = refreshes[r2].repos
    /\ refreshes[r1].newDashboardData # refreshes[r2].newDashboardData
    /\ home.dashboardData = refreshes[r1].newDashboardData

\* A refreshDashboard invocation is in progress: called and not yet through
\* its finally block.
InProgress == {r \in 1..Len(refreshes) : refreshes[r].pc = "running"}

\* C24 (under SpecHome): whenever isLoading is false no refresh batch is in
\* progress, so whenever the selection can change at most one
\* refreshDashboard invocation is in progress.
C24_NotLoadingMeansNoBatch ==
  /\ ~home.isLoading => InProgress = {}
  /\ Cardinality(InProgress) <= 1 \/ home.isLoading

\* C27 (under SpecHome): whenever no refresh is in flight, the repositories
\* of the displayed dashboard state are the selected repositories, also
\* after a batch that failed.
C27_DisplayedIsSelection ==
  (todo = <<>> /\ InProgress = {})
    => DOMAIN home.dashboardData = ReposOf(home.selectedRepos)

\* C28 (under SpecHome): on the step on which a refresh batch completes
\* successfully no error message is displayed afterwards.
C28_SuccessClearsError ==
  [][\A r \in 1..Len(refreshes) :
       (r <= Len(refreshes') /\ refreshes[r].pc = "running" /\ refreshes'[r].pc = "ok")
         => home'.error = NoMessage]_vars

\* C25 (under SpecRegistry): a 401 answer to an operation whose client has
\* been replaced since the operation started leaves the session's present
\* client and persisted token as they are.
C25_Late401KeepsNewClient ==
  [][\A o \in OpIds :
       (/\ ops[o].pc # "done"
        /\ ops'[o].pc = "done"
        /\ Evicts(ops'[o].cause)
        /\ octokitInstances[ops[o].userId] # NoClient
        /\ octokitInstances[ops[o].userId] # ops[o].client)
         => /\ octokitInstances'[ops[o].userId] = octokitInstances[ops[o].userId]
            /\ localStorage'[ops[o].userId] = localStorage[ops[o].userId]]_vars

\* C26 (under SpecRegistry): an operation that is served from the cache is
\* served data that was fetched with the session's present client, never
\* data of a client that has been evicted or replaced since.
C26_NoDataOfPreviousToken ==
  [][\A o \in OpIds :
       (ops[o].pc = "idle" /\ ops'[o].pc = "done" /\ ops'[o].fromCache)
         => LET sets == SetsOf(ops'[o].userId, CacheKey(ops'[o].kind, ops'[o].full_name))
            IN sets[Len(sets)].client = octokitInstances[ops'[o].userId]]_vars

\* C29 (under SpecFail): the step on which an operation fails changes no
\* cache entry, and the cache changes only on a step on which an operation
\* returns a result it computed, and then only under that operation's key;
\* so a failing operation leaves the entry of its key, expired or not, as it
\* found it and caches nothing partial or empty.
C29_FailureLeavesCache ==
  [][/\ \A o \in OpIds :
          (ops[o].pc # "done" /\ ops'[o].pc = "done" /\ ops'[o].out.kind = "err")
            => cache' = cache /\ setLog' = setLog
     /\ cache' # cache
          => \E o \in OpIds :
               /\ ops[o].pc # "done"
               /\ ops'[o].pc = "done"
               /\ ops'[o].out.kind = "ok"
               /\ ~ops'[o].fromCache
               /\ \A u \in DOMAIN cache :
                    \A k \in DOMAIN cache[u] :
                      (u # ops'[o].userId \/ k # CacheKey(ops'[o].kind, ops'[o].full_name))
                        => (k \in DOMAIN cache'[u] /\ cache'[u][k] = cache[u][k])]_vars

\* An operation that had collected a first page failed on a later request
\* while the cache holds an expired entry under its key.
C29_Witness ==
  \E o \in OpIds :
    /\ ops[o].pc = "done"
    /\ ops[o].out.kind = "err"
    /\ ops[o].pages # <<>>
    /\ ops[o].userId \in DOMAIN cache
    /\ CacheKey(ops[o].kind, ops[o].full_name) \in DOMAIN cache[ops[o].userId]
    /\ now - cache[ops[o].userId][CacheKey(ops[o].kind, ops[o].full_name)].timestamp >= CACHE_TTL
    /\ ~ops[o].fromCache

\* C30 (under SpecFrame): the client or the persisted token of a session
\* changes only when the session is initialized or when one of its own
\* operations is answered with a 401; an operation that fails with any other
\* error changes no client and no token, and a call for a session that has
\* a client does not fail as uninitialized.
C30_Only401ChangesRegistry ==
  [][/\ \A u \in Sessions :
          (octokitInstances'[u] # octokitInstances[u] \/ localStorage'[u] # localStorage[u])
            => \/ /\ ops' = ops
                  /\ octokitInstances'[u] # NoClient
                  /\ localStorage'[u] = octokitInstances'[u]
               \/ \E o \in OpIds :
                    /\ ops[o].pc # "done"
                    /\ ops'[o].pc = "done"
                    /\ ops'[o].userId = u
                    /\ ops'[o].cause.hasStatus
                    /\ ops'[o].cause.status = 401
                    /\ octokitInstances'[u] = NoClient
                    /\ localStorage'[u] = NoToken
     /\ \A o \in OpIds :
          (/\ ops[o].pc # "done"
           /\ ops'[o].pc = "done"
           /\ ops'[o].out.kind = "err"
           /\ ~(ops'[o].cause.hasStatus /\ ops'[o].cause.status = 401))
            => octokitInstances' = octokitInstances /\ localStorage' = localStorage
     /\ \A o \in OpIds :
          (ops[o].pc = "idle" /\ ops'[o].pc # "idle" /\ octokitInstances[ops'[o].userId] # NoClient)
            => ops'[o].out # Threw(UninitializedError)]_vars

\* A call of u1 failed as rate limited and the next call of u1 went ahead,
\* u1 never having met a 401; a call of u2 met a 401 and u2 has lost its
\* client and token while u1 has both.
C30_Witness ==
  \E o, p, q \in OpIds :
    /\ o < p
    /\ ops[o].userId = "u1" /\ ops[p].userId = "u1" /\ ops[q].userId = "u2"
    /\ ops[o].pc = "done" /\ ops[o].cause = RateLimit403 /\ ops[o].out = Threw(RateLimitError)
    /\ ops[p].pc \in {"page", "env"}
    /\ ops[q].pc = "done" /\ ops[q].cause = BadCredentials
    /\ \A n \in OpIds : ops[n].userId = "u1" => ops[n].cause # BadCredentials
    /\ octokitInstances["u1"] = "tokA" /\ localStorage["u1"] = "tokA"
    /\ octokitInstances["u2"] = NoClient /\ localStorage["u2"] = NoToken

\* C31 (under SpecHomeLive): when every request is answered and every
\* callback runs, again and again no refreshDashboard invocation is in
\* progress, so every invocation that has set isLoading to true gets through
\* its finally block, whether its batch succeeds or a call of it fails; and
\* the page does not stay loading: isLoading is false again later.
C31_LoadingEnds ==
  /\ []<>(InProgress = {})
  /\ home.isLoading ~> ~home.isLoading

\* One batch has failed and another has succeeded, none is in progress and
\* the page is not loading.
C31_Witness ==
  /\ \E r \in 1..Len(refreshes) : refreshes[r].pc = "failed" /\ refreshes[r].repos # <<>>
  /\ \E r \in 1..Len(refreshes) : refreshes[r].pc = "ok" /\ refreshes[r].repos # <<>>
  /\ InProgress = {}
  /\ todo = <<>>
  /\ ~home.isLoading

====
